---- MODULE Spec2Model ----
(***************************************************************************)
(* Model of the image reorganisation pipeline of Amz-Image-Tool:           *)
(*   colour_sorter.run_with_map  (ColourAssigner)                          *)
(*   pt_order.run_with_map       (PositionRenamer)                         *)
(*   amz_rename.process_root, sku2asin_rename  (IdentifierResolver)        *)
(*   amz_rename.create_zip_archives            (ArchivePacker)             *)
(* over an explicit file system.  Names are sequences of one-letter        *)
(* strings, so that sorting, extension handling and PT-name formatting are *)
(* computed as the code computes them.  A path is a sequence of names.     *)
(***************************************************************************)
EXTENDS Naturals, Integers, Sequences, FiniteSets, TLC

(***************************************************************************)
(* Bounds of the model.                                                    *)
(***************************************************************************)
MaxClock == 1      \* seconds the wall clock may advance
MaxRuns == 2       \* stage invocations per behaviour of the pipeline
MaxMapLen == 2     \* longest PT mapping tried
MaxColours == 2    \* longest colour sequence tried
MaxAmzFiles == 4   \* most files in a tree given to amz_rename
MaxPackFiles == 6  \* most files in a listing given to the archive packer

(***************************************************************************)
(* Characters.  Python compares str by code point; CharOrder lists the     *)
(* characters used by the model in code-point order.                       *)
(***************************************************************************)
Digits == <<"0", "1", "2", "3", "4", "5", "6", "7", "8", "9">>

UpperCase == <<"A", "B", "C", "D", "E", "F", "G", "H", "I", "J", "K", "L", "M",
               "N", "O", "P", "Q", "R", "S", "T", "U", "V", "W", "X", "Y", "Z">>

LowerCase == <<"a", "b", "c", "d", "e", "f", "g", "h", "i", "j", "k", "l", "m",
               "n", "o", "p", "q", "r", "s", "t", "u", "v", "w", "x", "y", "z">>

\* U+212A KELVIN SIGN, an upper-case letter whose lower case is "k"
c_KELVIN == "{U+212A}"

CharOrder ==
    <<" ", "-", ".", "/">> \o Digits \o <<":">> \o UpperCase \o <<"_">> \o LowerCase
        \o <<c_KELVIN>>

Range(s) == {s[i] : i \in DOMAIN s}

IndexOf(s, c) == CHOOSE i \in DOMAIN s : s[i] = c

\* ord(c), tabulated
OrdOf == [c \in Range(CharOrder) |-> IndexOf(CharOrder, c)]

Ord(c) == OrdOf[c]

DigitSet == Range(Digits)

isdigit(c) == c \in DigitSet

DigitVal(c) == Ord(c) - Ord("0")

\* str.lower() on one character, tabulated
LowerOf ==
    [c \in Range(CharOrder) |->
        IF c \in Range(UpperCase) THEN LowerCase[IndexOf(UpperCase, c)]
        ELSE IF c = c_KELVIN THEN "k" ELSE c]

lowerChar(c) == LowerOf[c]

\* str.lower()
lower(s) == [i \in DOMAIN s |-> lowerChar(s[i])]

\* str.upper() on one character, tabulated
UpperOf ==
    [c \in Range(CharOrder) |->
        IF c \in Range(LowerCase) THEN UpperCase[IndexOf(LowerCase, c)] ELSE c]

\* str.upper()
upper(s) == [i \in DOMAIN s |-> UpperOf[s[i]]]

\* int(p) for a run of decimal digits
RECURSIVE int(_)
int(p) == IF p = <<>> THEN 0
          ELSE 10 * int(SubSeq(p, 1, Len(p) - 1)) + DigitVal(p[Len(p)])

\* str(n) for n >= 0
RECURSIVE str(_)
str(n) == IF n < 10 THEN <<Digits[n + 1]>>
          ELSE str(n \div 10) \o <<Digits[(n % 10) + 1]>>

\* f"{n:0{width}d}" for n >= 0
RECURSIVE zfill(_, _)
zfill(s, width) == IF Len(s) >= width THEN s ELSE zfill(<<"0">> \o s, width)

\* str < str by code point
RECURSIVE StrLess(_, _)
StrLess(a, b) ==
    IF b = <<>> THEN FALSE
    ELSE IF a = <<>> THEN TRUE
    ELSE IF a[1] # b[1] THEN Ord(a[1]) < Ord(b[1])
    ELSE StrLess(Tail(a), Tail(b))

(***************************************************************************)
(* logic_utils.natural_key / pt_order._natural_key:                        *)
(* re.split(r"(\d+)", name) yields str, digits, str, digits, ..., str;     *)
(* digit runs become ints, the others are lower-cased.                     *)
(***************************************************************************)
\* last index of the run of digits (dig = TRUE) or non-digits starting at i
RECURSIVE RunEnd(_, _, _)
RunEnd(s, i, dig) ==
    IF i > Len(s) \/ isdigit(s[i]) # dig THEN i - 1 ELSE RunEnd(s, i + 1, dig)

RECURSIVE KeyFrom(_, _, _)
KeyFrom(s, i, wantStr) ==
    LET j == RunEnd(s, i, ~wantStr)
        part == SubSeq(s, i, j)
    IN  IF wantStr
        THEN <<lower(part)>> \o (IF j >= Len(s) THEN <<>> ELSE KeyFrom(s, j + 1, FALSE))
        ELSE <<int(part)>> \o KeyFrom(s, j + 1, TRUE)

\* a key that takes the whole name as one lower-cased run: plain text order
natural_key_text(name) == <<lower(name)>>

natural_key(name) == KeyFrom(name, 1, TRUE)

\* list < list as Python compares the keys: odd positions hold str, even hold int
RECURSIVE KeyLessFrom(_, _, _)
KeyLessFrom(a, b, i) ==
    IF i > Len(b) THEN FALSE
    ELSE IF i > Len(a) THEN TRUE
    ELSE IF a[i] # b[i]
         THEN IF i % 2 = 1 THEN StrLess(a[i], b[i]) ELSE a[i] < b[i]
    ELSE KeyLessFrom(a, b, i + 1)

KeyLess(a, b) == KeyLessFrom(a, b, 1)

\* the lists sorted(S, key=...) can return, Less comparing the keys: the sort is
\* stable, so entries with equal keys stay in the order the directory listing (or
\* the dict) gave them, which the model leaves open
SortedBy(S, Less(_, _)) ==
    LET sorted[T \in SUBSET S] ==
            IF T = {} THEN {<<>>}
            ELSE UNION {{<<m>> \o t : t \in sorted[T \ {m}]} :
                           m \in {x \in T : \A y \in T : ~Less(y, x)}}
    IN  sorted[S]

NameLess(a, b) == KeyLess(natural_key(a), natural_key(b))

(***************************************************************************)
(* os.path.splitext / Path.suffix: the extension starts at the last dot,   *)
(* unless that dot only follows leading dots.                              *)
(***************************************************************************)
LastDot(n) == IF \E i \in DOMAIN n : n[i] = "."
              THEN CHOOSE i \in DOMAIN n : n[i] = "." /\ \A j \in DOMAIN n : n[j] = "." => j <= i
              ELSE 0

suffix(n) ==
    LET d == LastDot(n)
    IN  IF d > 0 /\ (\E j \in 1 .. d - 1 : n[j] # ".") THEN SubSeq(n, d, Len(n)) ELSE <<>>

startswith(n, c) == Len(n) > 0 /\ n[1] = c

(***************************************************************************)
(* Names used by the model.                                                *)
(***************************************************************************)
s_app == <<"a", "p", "p">>
s_Inputs == <<"I", "n", "p", "u", "t", "s">>
s_Outputs == <<"O", "u", "t", "p", "u", "t", "s">>
s_M == <<"M">>
s_Red == <<"R", "e", "d">>
s_Blue == <<"B", "l", "u", "e">>
s_Nope == <<"N", "o", "p", "e">>
s_blank == <<" ">>

f_1jpg == <<"1", ".", "j", "p", "g">>
f_2JPG == <<"2", ".", "J", "P", "G">>
f_01jpg == <<"0", "1", ".", "j", "p", "g">>
f_10png == <<"1", "0", ".", "p", "n", "g">>
f_PT02jpg == <<"P", "T", "0", "2", ".", "j", "p", "g">>
f_ntxt == <<"n", ".", "t", "x", "t">>
f_hidden == <<".", "h", ".", "j", "p", "g">>

e_jpg == <<".", "j", "p", "g">>
e_jpeg == <<".", "j", "p", "e", "g">>
e_png == <<".", "p", "n", "g">>
e_gif == <<".", "g", "i", "f">>
e_bmp == <<".", "b", "m", "p">>
e_webp == <<".", "w", "e", "b", "p">>
e_tif == <<".", "t", "i", "f">>
e_tiff == <<".", "t", "i", "f", "f">>

\* the directory holding the scripts: os.path.dirname(__file__)
script_dir == <<s_app>>

OutputsDir == script_dir \o <<s_Outputs>>

InputsRoot == script_dir \o <<s_Inputs>>

\* datetime.now().strftime("%Y%m%d-%H%M%S") at second c of the model's minute
strftime(c) ==
    <<"2", "0", "2", "6", "0", "1", "0", "1", "-", "0", "0", "0", "0">> \o zfill(str(c), 2)

(***************************************************************************)
(* The file system: the directories that exist and the regular files, each *)
(* with the bytes it holds (data names the file the bytes first came from).*)
(***************************************************************************)
IsPrefix(p, q) == Len(p) <= Len(q) /\ SubSeq(q, 1, Len(p)) = p

Prefixes(p) == {SubSeq(p, 1, i) : i \in 1 .. Len(p)}

\* os.makedirs(p, exist_ok=True) / Path.mkdir(parents=True, exist_ok=True)
makedirs(D, p) == D \cup Prefixes(p)

Subdirs(D, d) == {p \in D : Len(p) = Len(d) + 1 /\ IsPrefix(d, p)}

FileNames(F, d) == {f.name : f \in {g \in F : g.dir = d}}

Exists(F, d, n) == \E f \in F : f.dir = d /\ f.name = n

DataOf(F, d, n) == (CHOOSE f \in F : f.dir = d /\ f.name = n).data

\* shutil.copy2(src, dst): dst is created or overwritten with the bytes of src
copy2(F, sd, sn, dd, dn) ==
    {f \in F : ~(f.dir = dd /\ f.name = dn)}
        \cup {[dir |-> dd, name |-> dn, data |-> DataOf(F, sd, sn)]}

\* the path as a string, for sorting paths
RECURSIVE PathStr(_)
PathStr(p) == IF p = <<>> THEN <<>> ELSE <<"/">> \o p[1] \o PathStr(Tail(p))

\* the files of F below the directory r, as (relative directory, name, bytes)
Under(F, r) ==
    {[rel |-> SubSeq(f.dir, Len(r) + 1, Len(f.dir)), name |-> f.name, data |-> f.data] :
        f \in {g \in F : IsPrefix(r, g.dir)}}

(***************************************************************************)
(* pt_order.py                                                             *)
(***************************************************************************)
PT_INCLUDE_HIDDEN == FALSE

PT_IMAGE_EXTS == {e_jpg, e_jpeg, e_png, e_gif, e_bmp, e_webp, e_tiff}

\* _list_images: the lists the call can return (one, unless two names have equal keys)
_list_images(F, D, dirpath) ==
    IF dirpath \notin D THEN {<<>>}
    ELSE SortedBy({n \in FileNames(F, dirpath) :
                      /\ (PT_INCLUDE_HIDDEN \/ ~startswith(n, "."))
                      /\ lower(suffix(n)) \in PT_IMAGE_EXTS},
                  NameLess)

PathLess(p, q) == KeyLess(natural_key(PathStr(p)), natural_key(PathStr(q)))

\* the directories os.walk(base) visits: hidden directories are pruned
Walked(D, base) ==
    {p \in D : /\ IsPrefix(base, p)
               /\ \A i \in Len(base) + 1 .. Len(p) : PT_INCLUDE_HIDDEN \/ ~startswith(p[i], ".")}

\* _find_leaf_dirs: the lists the call can return
_find_leaf_dirs(D, base) ==
    IF base \notin D THEN {<<>>}
    ELSE LET W == Walked(D, base)
             leaves == {p \in W : Subdirs(W, p) = {}}
             has_subdir == \E p \in W : Subdirs(W, p) # {}
         IN  SortedBy(IF ~has_subdir THEN {base} ELSE leaves, PathLess)

Max(S) == CHOOSE x \in S : \A y \in S : y <= x

Min(a, b) == IF a <= b THEN a ELSE b

\* a width that does not grow with the mapping
_width_two(mapping) == 2

_width_from_mapping(mapping) ==
    LET m == IF mapping # <<>> THEN Max(Range(mapping)) ELSE 0
        w == Len(str(m + 2))
    IN  IF w > 2 THEN w ELSE 2

\* f"PT{new_num:0{width}d}{ext.lower()}"
TargetName(mapping, i, fname) ==
    <<"P", "T">> \o zfill(str(mapping[i] + 2), _width_from_mapping(mapping)) \o lower(suffix(fname))

\* _plan_pairs_for_leaf, given the listing `files` of the leaf: the pairs
\* (src, dst) of names in the leaf, or the exception raised
_plan_pairs_for_leaf(leaf, mapping, files) ==
    IF files = <<>> THEN [exc |-> "none", pairs |-> <<>>]
    ELSE IF Len(files) < Len(mapping) THEN [exc |-> "RuntimeError", pairs |-> <<>>]
    ELSE LET first == SubSeq(files, 1, Min(Len(mapping), Len(files)))  \* files[:len(mapping)]
             all == [i \in DOMAIN first |->
                        [src |-> first[i], dst |-> TargetName(mapping, i, first[i])]]
             differs(pr) == pr.src # pr.dst
             pairs == SelectSeq(all, differs)
             target_names == [i \in DOMAIN pairs |-> pairs[i].dst]
         IN  IF Len(target_names) # Cardinality(Range(target_names))
             THEN [exc |-> "RuntimeError", pairs |-> <<>>]
             ELSE [exc |-> "none", pairs |-> pairs]

\* the copy loop of _two_phase_rename over pairs[i..]: the files and directories
\* after it, and the paths written
RECURSIVE CopyPairs(_, _, _, _, _, _, _)
CopyPairs(F, D, leaf, pairs, i, out_dir, W) ==
    IF i > Len(pairs) THEN [files |-> F, dirs |-> D, written |-> W]
    ELSE CopyPairs(copy2(F, leaf, pairs[i].src, out_dir, pairs[i].dst),
                   makedirs(D, out_dir), leaf, pairs, i + 1, out_dir,
                   W \cup {[dir |-> out_dir, name |-> pairs[i].dst]})

\* _two_phase_rename at second `now`, for the pairs of one leaf; input_root is the
\* `root` argument of run_with_map found on the call stack; `apply` is not read
_two_phase_rename(F, D, leaf, pairs, apply, input_root, now) ==
    IF pairs = <<>> THEN [files |-> F, dirs |-> D, written |-> {}, output_root |-> <<>>]
    ELSE LET output_root == OutputsDir \o <<strftime(now)>>
             rel_dir == SubSeq(leaf, Len(input_root) + 1, Len(leaf))
             out_dir == output_root \o rel_dir
             r == CopyPairs(F, makedirs(D, output_root), leaf, pairs, 1, out_dir, {})
         IN  [files |-> r.files, dirs |-> r.dirs, written |-> r.written,
              output_root |-> output_root]

\* _norm_map_keys: pt_map is a set of entries (key, mapping) with distinct keys
_norm_map_keys(pt_map) ==
    {e \in pt_map : e.key # <<>> /\ \A i \in DOMAIN e.mapping : e.mapping[i] \in Int}

KeyLowerLess(e1, e2) == StrLess(lower(PathStr(e1.key)), lower(PathStr(e2.key)))

\* the tasks run_with_map collects for one entry of the map
TasksFor(D, root_path, e) ==
    LET base == root_path \o e.key
    IN  IF ~IsPrefix(root_path, base) \/ base \notin D THEN {<<>>}
        ELSE {[i \in DOMAIN L |-> [leaf |-> L[i], mapping |-> e.mapping]] :
                 L \in _find_leaf_dirs(D, base)}

RECURSIVE TasksFrom(_, _, _, _)
TasksFrom(D, root_path, order, i) ==
    IF i > Len(order) THEN {<<>>}
    ELSE {a \o b : a \in TasksFor(D, root_path, order[i]),
                   b \in TasksFrom(D, root_path, order, i + 1)}

\* the task lists run_with_map can collect
CollectTasks(D, root_path, norm) ==
    UNION {TasksFrom(D, root_path, order, 1) : order \in SortedBy(norm, KeyLowerLess)}

(***************************************************************************)
(* colour_sorter.py                                                        *)
(***************************************************************************)
COL_INCLUDE_HIDDEN == FALSE

COL_IMAGE_EXTS == {e_jpg, e_jpeg, e_png, e_webp, e_bmp, e_tif, e_tiff}

\* str.strip()
RECURSIVE strip(_)
strip(s) ==
    IF s = <<>> THEN s
    ELSE IF s[1] = " " THEN strip(Tail(s))
    ELSE IF s[Len(s)] = " " THEN strip(SubSeq(s, 1, Len(s) - 1))
    ELSE s

_is_hidden(n) ==
    IF COL_INCLUDE_HIDDEN THEN FALSE ELSE startswith(n, ".") \/ startswith(n, "_")

\* _iter_images: the lists the call can yield
_iter_images(F, folder) ==
    SortedBy({n \in FileNames(F, folder) :
                 lower(suffix(n)) \in COL_IMAGE_EXTS /\ ~_is_hidden(n)},
             NameLess)

\* [s.strip() for s in seq if str(s).strip()]
StripSeq(seq) ==
    LET nonblank(c) == strip(c) # <<>>
        kept == SelectSeq(seq, nonblank)
    IN  [i \in DOMAIN kept |-> strip(kept[i])]

\* _process over col_map[i..] (a list of entries (rel, seq) in dict order): the
\* outcomes the call can have.  The first leaf that has images reaches line 114,
\* which reads the global name duplicate_indices; nothing in colour_sorter.py (or
\* in builtins) binds that name, so the read raises NameError and the statements
\* after it (partition, bucket directories, copies, clone) never run.
RECURSIVE _process(_, _, _, _, _, _, _, _)
_process(F, D, root, col_map, i, apply, clone_map, output_root) ==
    IF i > Len(col_map)
    THEN {[exc |-> "none", files |-> F, dirs |-> D, leaf |-> <<>>, listing |-> <<>>,
           colours |-> <<>>]}
    ELSE LET rel_posix == col_map[i].rel
             colours == StripSeq(col_map[i].seq)
             folder == root \o rel_posix
             rest == _process(F, D, root, col_map, i + 1, apply, clone_map, output_root)
         IN  IF rel_posix = <<>> \/ colours = <<>> \/ folder \notin D THEN rest
             ELSE UNION {IF files = <<>> THEN rest
                         ELSE {[exc |-> "NameError", files |-> F, dirs |-> D,
                                leaf |-> rel_posix, listing |-> files,
                                colours |-> colours]} :
                         files \in _iter_images(F, folder)}

\* the normalisation of col_map in run_with_map
NormColMap(col_map) ==
    LET keep(e) == e.rel # <<>> /\ StripSeq(e.seq) # <<>>
        kept == SelectSeq(col_map, keep)
    IN  [i \in DOMAIN kept |-> [rel |-> kept[i].rel, seq |-> StripSeq(kept[i].seq)]]

\* the normalisation of clone_map (a set of entries (rel, name)) in run_with_map
NormCloneMap(clone_map) == {e \in clone_map : e.rel # <<>> /\ e.name # <<>>}

\* colour_sorter.run_with_map at second `now`: the outcomes the call can have
colour_run_with_map(F, D, root, col_map, apply_changes, clone_map, now) ==
    LET norm == NormColMap(col_map)
        clone_norm == NormCloneMap(clone_map)
        output_root == OutputsDir \o <<strftime(now)>>
        D1 == makedirs(D, output_root)
    IN  {[exc |-> r.exc, files |-> r.files, dirs |-> r.dirs, leaf |-> r.leaf,
          listing |-> r.listing, colours |-> r.colours, output_root |-> output_root,
          ret |-> IF r.exc = "none" THEN output_root ELSE <<>>] :
            r \in _process(F, D1, root, norm, 1, apply_changes, clone_norm, output_root)}

(***************************************************************************)
(* amz_rename.py: the identifier table.  sku2asin.csv is modelled after    *)
(* csv.reader has split it: a list of rows, each a list of cells; the      *)
(* first row is the header.  A dict is a set of entries with distinct keys.*)
(***************************************************************************)
s_sku == <<"s", "k", "u">>

s_asin == <<"a", "s", "i", "n">>

\* ASIN_RE = re.compile(r"^[A-Z0-9]{10}$", re.IGNORECASE): under IGNORECASE the
\* class [A-Z] of a str pattern also matches the non-ASCII letters that case-fold
\* to an ASCII letter, of which the model has the Kelvin sign
ASIN_RE_match(s) ==
    /\ Len(s) = 10
    /\ \A i \in DOMAIN s :
           s[i] \in DigitSet \cup Range(UpperCase) \cup Range(LowerCase) \cup {c_KELVIN}

dict_get(mapping, k) ==
    IF \E e \in mapping : e.sku = k THEN (CHOOSE e \in mapping : e.sku = k).asin ELSE <<>>

dict_set(mapping, k, v) == {e \in mapping : e.sku # k} \cup {[sku |-> k, asin |-> v]}

\* headers[want]: the last column whose lower-cased name is `want`, or 0
ColumnOf(fieldnames, want) ==
    LET I == {i \in DOMAIN fieldnames : lower(fieldnames[i]) = want}
    IN  IF I = {} THEN 0 ELSE CHOOSE i \in I : \A j \in I : j <= i

\* row.get(col) or ""
Cell(row, i) == IF i <= Len(row) THEN row[i] ELSE <<>>

\* the loop over the data rows (DictReader skips the empty ones)
RECURSIVE LoadRows(_, _, _, _, _)
LoadRows(rows, i, sku_col, asin_col, mapping) ==
    IF i > Len(rows) THEN mapping
    ELSE LET sku == lower(strip(Cell(rows[i], sku_col)))
             asin == upper(strip(Cell(rows[i], asin_col)))
         IN  LoadRows(rows, i + 1, sku_col, asin_col,
                      IF rows[i] # <<>> /\ sku # <<>> /\ ASIN_RE_match(asin)
                      THEN dict_set(mapping, sku, asin) ELSE mapping)

\* _load_sku2asin_csv: the mapping, or the exception raised
_load_sku2asin_csv(c) ==
    IF ~c.exists THEN [exc |-> "FileNotFoundError", mapping |-> {}]
    ELSE IF c.rows = <<>> \/ c.rows[1] = <<>> THEN [exc |-> "ValueError", mapping |-> {}]
    ELSE LET sku_col == ColumnOf(c.rows[1], s_sku)
             asin_col == ColumnOf(c.rows[1], s_asin)
         IN  IF sku_col = 0 \/ asin_col = 0 THEN [exc |-> "ValueError", mapping |-> {}]
             ELSE [exc |-> "none",
                   mapping |-> LoadRows(c.rows, 2, sku_col, asin_col, {})]

(***************************************************************************)
(* amz_rename.py: names.                                                   *)
(***************************************************************************)
INVALID_WIN_CHARS == {"<", ">", ":", "\"", "/", "\\", "|", "?", "*"}

\* re.sub(r"\s+", " ", name)
RECURSIVE CollapseSpaces(_)
CollapseSpaces(s) ==
    IF Len(s) < 2 THEN s
    ELSE IF s[1] = " " /\ s[2] = " " THEN CollapseSpaces(Tail(s))
    ELSE <<s[1]>> \o CollapseSpaces(Tail(s))

sanitize_for_windows(name) ==
    LET valid(c) == c \notin INVALID_WIN_CHARS
    IN  strip(CollapseSpaces(SelectSeq(name, valid)))

AMZ_EXTENSIONS == {e_jpg, e_jpeg, e_png, e_webp, e_tif, e_tiff}

\* should_rename, for the name of a regular file
should_rename(n) == lower(suffix(n)) \in AMZ_EXTENSIONS

\* " ".join(parts)
RECURSIVE Join(_)
Join(parts) ==
    IF parts = <<>> THEN <<>>
    ELSE IF Len(parts) = 1 THEN parts[1]
    ELSE parts[1] \o <<" ">> \o Join(Tail(parts))

\* derive_sku_from_file, for a file in the directory dir below root
derive_sku_from_file(dir, root) ==
    LET rel_parts == SubSeq(dir, Len(root) + 1, Len(dir))
        sku_parts == IF Len(rel_parts) < 4
                     THEN rel_parts \o [i \in 1 .. 4 - Len(rel_parts) |-> <<>>]
                     ELSE SubSeq(rel_parts, Len(rel_parts) - 3, Len(rel_parts))
    IN  sanitize_for_windows(Join(sku_parts))

s_MAIN == <<"M", "A", "I", "N">>

\* (MAIN|PT\d{2}), ignoring case, matches s at position i
VariantAt(s, i) ==
    /\ i + 3 <= Len(s)
    /\ \/ upper(SubSeq(s, i, i + 3)) = s_MAIN
       \/ upper(SubSeq(s, i, i + 1)) = <<"P", "T">> /\ isdigit(s[i + 2]) /\ isdigit(s[i + 3])

NoMatch == [ok |-> FALSE, id |-> <<>>, variant |-> <<>>, ext |-> <<>>]

\* NAME_RE = ^(.+?)\.(MAIN|PT\d{2})\.(.+)$, ignoring case: the first group is
\* lazy, so the match is at the first dot after which the rest matches
NAME_RE_match(s) ==
    LET I == {i \in 2 .. Len(s) :
                 s[i] = "." /\ VariantAt(s, i + 1) /\ i + 6 <= Len(s) /\ s[i + 5] = "."}
    IN  IF I = {} THEN NoMatch
        ELSE LET i == CHOOSE x \in I : \A y \in I : x <= y
             IN  [ok |-> TRUE, id |-> SubSeq(s, 1, i - 1),
                  variant |-> SubSeq(s, i + 1, i + 4), ext |-> SubSeq(s, i + 6, Len(s))]

\* str.lstrip(".")
RECURSIVE lstrip_dot(_)
lstrip_dot(s) == IF s # <<>> /\ s[1] = "." THEN lstrip_dot(Tail(s)) ELSE s

\* the variant and extension process_root reads from a file name
ParseVariant(n) ==
    LET m == NAME_RE_match(n)
        bare == VariantAt(n, 1) /\ Len(n) >= 6 /\ n[5] = "."
    IN  IF m.ok THEN [ok |-> TRUE, variant |-> upper(m.variant), ext |-> m.ext]
        ELSE IF bare /\ upper(SubSeq(n, 1, 2)) = <<"P", "T">>
        THEN [ok |-> TRUE, variant |-> upper(SubSeq(n, 1, 4)), ext |-> SubSeq(n, 6, Len(n))]
        ELSE IF bare
        THEN [ok |-> TRUE, variant |-> s_MAIN, ext |-> lstrip_dot(suffix(n))]
        ELSE [ok |-> FALSE, variant |-> <<>>, ext |-> <<>>]

\* str.replace("-", "/")
dash_to_slash(s) == [i \in DOMAIN s |-> IF s[i] = "-" THEN "/" ELSE s[i]]

\* the two lookups the other way round: the fallback key first
Lookup_fallback_first(mapping, key) ==
    IF dict_get(mapping, dash_to_slash(key)) # <<>> THEN dict_get(mapping, dash_to_slash(key))
    ELSE dict_get(mapping, key)

\* sku2asin.get(key), then the fallback sku2asin.get(key.replace("-", "/"))
Lookup(mapping, key) ==
    IF dict_get(mapping, key) # <<>> THEN dict_get(mapping, key)
    ELSE dict_get(mapping, dash_to_slash(key))

(***************************************************************************)
(* amz_rename.py: create_zip_archives.  Sizes are counted in blocks of 64  *)
(* bytes (every size of the model is a multiple of 64).                    *)
(***************************************************************************)
BLOCK == 8 * 8

MB == (1000 * 1000) \div BLOCK

MAX_ZIP_SIZE == (1 * 1024 * 1024 * 1024) \div BLOCK

\* the listing left as it is, without the sort of line 239
ListingPositions(sizes) == [r \in DOMAIN sizes |-> r]

\* files_with_sizes.sort(key=size, reverse=True) over the positions of the list
\* `sizes`: the sort is stable, equal sizes stay in listing order
SortedPositions(sizes) ==
    LET before(j, i) == sizes[j] > sizes[i] \/ (sizes[j] = sizes[i] /\ j < i)
        rank(i) == Cardinality({j \in DOMAIN sizes : before(j, i)}) + 1
    IN  [r \in DOMAIN sizes |-> CHOOSE i \in DOMAIN sizes : rank(i) = r]

RECURSIVE SumSizes(_, _)
SumSizes(sizes, bin) ==
    IF bin = <<>> THEN 0 ELSE sizes[bin[1]] + SumSizes(sizes, Tail(bin))

\* the loop with the test of line 249 always true: every file joins the first bin
RECURSIVE FirstFit_uncapped(_, _, _, _)
FirstFit_uncapped(sizes, order, k, bins) ==
    IF k > Len(order) THEN bins
    ELSE IF bins # <<>>
    THEN FirstFit_uncapped(sizes, order, k + 1, [bins EXCEPT ![1] = Append(@, order[k])])
    ELSE FirstFit_uncapped(sizes, order, k + 1, Append(bins, <<order[k]>>))

\* the first-fit loop over order[k..]; a bin is the list of the positions put in it
RECURSIVE FirstFit(_, _, _, _)
FirstFit(sizes, order, k, bins) ==
    IF k > Len(order) THEN bins
    ELSE LET size == sizes[order[k]]
             fits == {i \in DOMAIN bins : SumSizes(sizes, bins[i]) + size <= MAX_ZIP_SIZE}
         IN  IF fits # {}
             THEN LET i == CHOOSE x \in fits : \A y \in fits : x <= y
                  IN  FirstFit(sizes, order, k + 1, [bins EXCEPT ![i] = Append(@, order[k])])
             ELSE FirstFit(sizes, order, k + 1, Append(bins, <<order[k]>>))

\* the bins create_zip_archives builds for a listing with these sizes
BinsOf(sizes) == FirstFit(sizes, SortedPositions(sizes), 1, <<>>)

\* the sizes the bytes of the model's files have: st_size
SizeChoices == <<50 * MB, 200 * MB, 300 * MB, 400 * MB, 900 * MB, 1100 * MB>>

st_size(f) == SizeChoices[(f.data % Len(SizeChoices)) + 1]

NoOrder(a, b) == FALSE

\* Path.rglob("*") restricted to regular files: the orders the walk can yield
rglob(F, root) == SortedBy({f \in F : IsPrefix(root, f.dir)}, NoOrder)

s_Renamed == <<"_", "R", "e", "n", "a", "m", "e", "d">>

\* str.replace("_Renamed", "")
RECURSIVE strip_Renamed(_)
strip_Renamed(s) ==
    IF Len(s) < Len(s_Renamed) THEN s
    ELSE IF SubSeq(s, 1, Len(s_Renamed)) = s_Renamed
    THEN strip_Renamed(SubSeq(s, Len(s_Renamed) + 1, Len(s)))
    ELSE <<s[1]>> \o strip_Renamed(Tail(s))

zip_name(timestamp, idx) ==
    timestamp \o <<"_", "p", "a", "r", "t">> \o str(idx) \o <<".", "z", "i", "p">>

\* create_zip_archives(output_root): the outcomes, one per listing order; each
\* bin is written as <timestamp>_part<idx>.zip next to output_root
create_zip_archives(F, output_root) ==
    LET zip_dir == SubSeq(output_root, 1, Len(output_root) - 1)
        timestamp == strip_Renamed(output_root[Len(output_root)])
    IN  {LET sizes == [i \in DOMAIN L |-> st_size(L[i])]
             bins == BinsOf(sizes)
             zips == {[dir |-> zip_dir, name |-> zip_name(timestamp, idx), data |-> 0] :
                         idx \in DOMAIN bins}
         IN  [files |-> {f \in F : \A z \in zips : ~(f.dir = z.dir /\ f.name = z.name)}
                            \cup zips,
              bins |-> [b \in DOMAIN bins |-> [k \in DOMAIN bins[b] |-> L[bins[b][k]]]]] :
            L \in rglob(F, output_root)}

(***************************************************************************)
(* amz_rename.py: process_root and sku2asin_rename.                        *)
(***************************************************************************)
\* the body of the loop of process_root for the file f
ProcessFile(st, f, root_path, output_root, mapping) ==
    LET sku == derive_sku_from_file(f.dir, root_path)
        v == ParseVariant(f.name)
        asin == Lookup(mapping, lower(sku))
    IN  IF ~should_rename(f.name) \/ sku = <<>> \/ ~v.ok \/ asin = <<>> THEN st
        ELSE LET target_name == asin \o <<".">> \o v.variant \o <<".">> \o v.ext
                 target_dir == output_root \o SubSeq(f.dir, Len(root_path) + 1, Len(f.dir))
             IN  [files |-> copy2(st.files, f.dir, f.name, target_dir, target_name),
                  dirs |-> makedirs(st.dirs, target_dir),
                  total |-> st.total + 1,
                  copied |-> Append(st.copied, [src |-> f, dir |-> target_dir,
                                                name |-> target_name])]

RECURSIVE ProcessFiles(_, _, _, _, _, _)
ProcessFiles(st, order, i, root_path, output_root, mapping) ==
    IF i > Len(order) THEN st
    ELSE ProcessFiles(ProcessFile(st, order[i], root_path, output_root, mapping),
                      order, i + 1, root_path, output_root, mapping)

AmzResult(exc, ret, F, D, output_root, loaded, mapping, total, copied, bins) ==
    [exc |-> exc, ret |-> ret, files |-> F, dirs |-> D, output_root |-> output_root,
     loaded |-> loaded, table |-> mapping, total |-> total, copied |-> copied,
     bins |-> bins]

\* process_root(root) at second `now`: the outcomes the call can have.  A return
\* value of "" is ret = <<>>.
process_root(F, D, c, root_path, now) ==
    IF root_path \notin D
    THEN {AmzResult("NotADirectoryError", <<>>, F, D, <<>>, FALSE, {}, 0, <<>>, <<>>)}
    ELSE LET parent_name == IF Len(root_path) > 1 THEN root_path[Len(root_path) - 1] ELSE <<>>
             timestamp == IF parent_name = s_Outputs THEN root_path[Len(root_path)]
                          ELSE strftime(now)
             output_root == script_dir \o <<s_Outputs, timestamp \o s_Renamed>>
             D1 == makedirs(D, output_root)
             load == _load_sku2asin_csv(c)
         IN  IF load.exc # "none"
             THEN {AmzResult("none", <<>>, F, D1, output_root, FALSE, {}, 0, <<>>, <<>>)}
             ELSE UNION {
                 LET st == ProcessFiles([files |-> F, dirs |-> D1, total |-> 0,
                                         copied |-> <<>>],
                                        order, 1, root_path, output_root, load.mapping)
                 IN  IF st.total > 0
                     THEN {AmzResult("none", output_root, z.files, st.dirs, output_root,
                                     TRUE, load.mapping, st.total, st.copied, z.bins) :
                              z \in create_zip_archives(st.files, output_root)}
                     ELSE {AmzResult("none", output_root, st.files, st.dirs, output_root,
                                     TRUE, load.mapping, 0, <<>>, <<>>)} :
                 order \in rglob(F, root_path)}

\* the loop body without the test of line 122: os.replace onto an existing target
RenameFile_replacing(st, f, mapping) ==
    LET m == NAME_RE_match(f.name)
        current_id == lower(m.id)
        asin == Lookup(mapping, current_id)
        new_name == asin \o <<".">> \o upper(m.variant) \o <<".">> \o m.ext
    IN  IF ~m.ok \/ ASIN_RE_match(current_id) \/ asin = <<>>
        THEN st
        ELSE [files |-> {g \in st.files : ~(g.dir = f.dir /\ g.name \in {f.name, new_name})}
                            \cup {[f EXCEPT !.name = new_name]},
              renamed |-> st.renamed + 1,
              moves |-> Append(st.moves, [src |-> f, name |-> new_name])]

\* the body of the loop of sku2asin_rename for the file f
RenameFile(st, f, mapping) ==
    LET m == NAME_RE_match(f.name)
        current_id == lower(m.id)
        asin == Lookup(mapping, current_id)
        new_name == asin \o <<".">> \o upper(m.variant) \o <<".">> \o m.ext
    IN  IF ~m.ok \/ ASIN_RE_match(current_id) \/ asin = <<>>
           \/ Exists(st.files, f.dir, new_name)
        THEN st
        ELSE [files |-> (st.files \ {f}) \cup {[f EXCEPT !.name = new_name]},
              renamed |-> st.renamed + 1,
              moves |-> Append(st.moves, [src |-> f, name |-> new_name])]

RECURSIVE RenameFiles(_, _, _, _)
RenameFiles(st, order, i, mapping) ==
    IF i > Len(order) THEN st
    ELSE RenameFiles(RenameFile(st, order[i], mapping), order, i + 1, mapping)

\* sku2asin_rename(root): the outcomes the call can have.  A file the walk meets
\* again under its new name has an identifier for key and is passed over.
sku2asin_rename(F, c, root) ==
    LET load == _load_sku2asin_csv(c)
    IN  IF load.exc # "none"
        THEN {[files |-> F, renamed |-> 0, moves |-> <<>>, loaded |-> FALSE, table |-> {}]}
        ELSE {LET st == RenameFiles([files |-> F, renamed |-> 0, moves |-> <<>>],
                                    order, 1, load.mapping)
              IN  [files |-> st.files, renamed |-> st.renamed, moves |-> st.moves,
                   loaded |-> TRUE, table |-> load.mapping] :
                 order \in rglob(F, root)}

(***************************************************************************)
(* State.                                                                  *)
(***************************************************************************)
VARIABLES
    clock,   \* the wall clock, in seconds
    dirs,    \* the directories that exist
    files,   \* the regular files: records [dir, name, data]
    runs,    \* stage invocations started so far
    col,     \* the last colour_sorter.run_with_map call, until the caller moves on
    pt,      \* the pt_order.run_with_map call in progress or just ended
    pre,     \* the files and directories when that call began
    outs,    \* per stage invocation, the output roots it created or wrote into
    csv,     \* sku2asin.csv in the working directory: its rows of cells, or NoCsv
    amz,     \* the last amz_rename call, until the caller moves on
    pack,    \* a list of file sizes and the bins create_zip_archives makes of it
    cmp,     \* two names and the outcome of comparing their natural keys
    colour_ui,  \* the ColorPhase widget: items, colour entries, clone, labels
    order_ui,   \* the OrderPhase widget: items, drag index, insertion index
    look,    \* a table, a key and the identifier the key resolves to
    name_plan  \* a mapping, the listing of a leaf and the pairs planned for it

vars ==
    <<clock, dirs, files, runs, col, pt, pre, outs, csv, amz, pack, cmp, colour_ui, order_ui,
      look, name_plan>>

\* what the leaves of the input tree may hold at the start
RedChoices ==
    {{}, {f_1jpg}, {f_1jpg, f_2JPG}, {f_PT02jpg, f_2JPG}, {f_1jpg, f_2JPG, f_10png}}

BlueChoices == {{}, {f_1jpg, f_2JPG}, {f_1jpg, f_ntxt, f_hidden}}

RedDir == InputsRoot \o <<s_M, s_Red>>

BlueDir == InputsRoot \o <<s_M, s_Blue>>

AllNames == <<f_1jpg, f_2JPG, f_10png, f_PT02jpg, f_ntxt, f_hidden, f_01jpg>>

\* the bytes of the file named n that the leaf d holds at the start
Bytes(d, n) == IndexOf(AllNames, n) + (IF d = BlueDir THEN Len(AllNames) ELSE 0)

NewFiles(d, names) == {[dir |-> d, name |-> n, data |-> Bytes(d, n)] : n \in names}

ColIdle ==
    [pc |-> "idle", exc |-> "none", root |-> <<>>, col_map |-> <<>>, clone_map |-> {},
     apply |-> TRUE, output_root |-> <<>>, ret |-> <<>>, leaf |-> <<>>, listing |-> <<>>,
     colours |-> <<>>]

PtIdle ==
    [pc |-> "idle", exc |-> "none", root |-> <<>>, pt_map |-> {}, apply |-> TRUE,
     pooled |-> FALSE, tasks |-> <<>>, todo |-> {}, plans |-> <<>>, results |-> <<>>,
     next |-> 1, output_root |-> <<>>, applied |-> <<>>]

NoPre == [files |-> {}, dirs |-> {}]

NoCsv == [exists |-> FALSE, rows |-> <<>>]

AmzIdle ==
    [pc |-> "idle", op |-> "none", exc |-> "none", root |-> <<>>, ret |-> <<>>,
     output_root |-> <<>>, loaded |-> FALSE, table |-> {}, total |-> 0, copied |-> <<>>,
     bins |-> <<>>, renamed |-> 0, moves |-> <<>>]

PackIdle == [pc |-> "idle", sizes |-> <<>>, bins |-> <<>>]

CmpIdle == [pc |-> "idle", a |-> <<>>, b |-> <<>>, less |-> FALSE]

ColourUiIdle ==
    [pc |-> "closed", items |-> <<>>, entries |-> <<>>, clone |-> <<>>, labels |-> <<>>,
     last |-> "none"]

OrderUiIdle == [pc |-> "closed", items |-> <<>>, drag_idx |-> -1, insert_idx |-> -1]

LookIdle == [pc |-> "idle", table |-> {}, key |-> <<>>, asin |-> <<>>]

PlanIdle == [pc |-> "idle", mapping |-> <<>>, listing |-> <<>>, exc |-> "none", pairs |-> <<>>]

Init ==
    /\ clock = 0
    /\ runs = 0
    /\ dirs = {script_dir} \cup Prefixes(RedDir) \cup Prefixes(BlueDir)
    /\ \E R \in RedChoices, B \in BlueChoices :
           files = NewFiles(RedDir, R) \cup NewFiles(BlueDir, B)
    /\ col = ColIdle
    /\ pt = PtIdle
    /\ pre = NoPre
    /\ outs = <<>>
    /\ csv = NoCsv
    /\ amz = AmzIdle
    /\ pack = PackIdle
    /\ cmp = CmpIdle
    /\ colour_ui = ColourUiIdle
    /\ order_ui = OrderUiIdle
    /\ look = LookIdle
    /\ name_plan = PlanIdle

(***************************************************************************)
(* The inputs tried.                                                       *)
(***************************************************************************)
\* a stage is run on the input tree or on an output root produced earlier
Roots == {InputsRoot} \cup Subdirs(dirs, OutputsDir)

SeqsUpTo(S, n) == UNION {[1 .. k -> S] : k \in 0 .. n}

ColourNames == {s_Red, s_Blue, s_blank}

ColourSeqs == SeqsUpTo(ColourNames, MaxColours)

LeafKeys == {<<s_M, s_Red>>, <<s_M, s_Nope>>}

CloneNames == {<<>>, f_1jpg}

BaseKeys == {<<s_M>>, <<s_M, s_Red>>, <<s_M, s_Nope>>}

Mappings == SeqsUpTo(0 .. MaxMapLen, MaxMapLen)

\* no call is in progress and the caller has taken the last call's result
Quiet == col.pc = "idle" /\ pt.pc = "idle" /\ amz.pc = "idle"

(***************************************************************************)
(* Actions.                                                                *)
(***************************************************************************)
\* a second passes
Tick ==
    /\ clock < MaxClock
    /\ clock' = clock + 1
    /\ UNCHANGED <<dirs, files, runs, col, pt, pre, outs, csv, amz, pack, cmp, colour_ui, order_ui,
                   look, name_plan>>

\* colour_sorter.run_with_map(root, {rel: seq}, apply, clone_map={rel: clone})
ColourRun(root, rel, seq, clone, apply) ==
    /\ Quiet
    /\ LET col_map == <<[rel |-> rel, seq |-> seq]>>
           clone_map == IF clone = <<>> THEN {} ELSE {[rel |-> rel, name |-> clone]}
       IN  \E r \in colour_run_with_map(files, dirs, root, col_map, apply, clone_map, clock) :
               /\ files' = r.files
               /\ dirs' = r.dirs
               /\ col' = [pc |-> IF r.exc = "none" THEN "returned" ELSE "raised",
                          exc |-> r.exc, root |-> root, col_map |-> col_map,
                          clone_map |-> clone_map, apply |-> apply,
                          output_root |-> r.output_root, ret |-> r.ret, leaf |-> r.leaf,
                          listing |-> r.listing, colours |-> r.colours]
               /\ outs' = Append(outs, [stage |-> "colour", roots |-> {r.output_root},
                                         old |-> {r.output_root} \cap dirs,
                                         call |-> <<root, col_map, clone_map, apply>>])
    /\ runs' = runs + 1
    /\ pre' = [files |-> files, dirs |-> dirs]
    /\ UNCHANGED <<clock, pt, csv, amz, pack, cmp, colour_ui, order_ui, look, name_plan>>

\* pt_order.run_with_map(root, {key: mapping}, apply, allow_parallel=...), up to the
\* collection of the tasks and the choice between the pool and the sequential loop.
\* The pool branch (line 185) reads os.cpu_count(); run_with_map imports os further
\* down (line 200), which makes os a local name of the function, unbound until that
\* import runs: the read raises UnboundLocalError before any leaf is planned.
PtStart(root, key, mapping, apply, allow_parallel) ==
    /\ Quiet
    /\ LET pt_map == {[key |-> key, mapping |-> mapping]}
       IN  \E tasks \in CollectTasks(dirs, root, _norm_map_keys(pt_map)) :
               LET pooled == allow_parallel /\ Len(tasks) > 1
               IN  pt' = [PtIdle EXCEPT
                            !.pc = IF pooled THEN "raised" ELSE "plan",
                            !.exc = IF pooled THEN "UnboundLocalError" ELSE "none",
                            !.root = root, !.pt_map = pt_map, !.apply = apply,
                            !.pooled = pooled, !.tasks = tasks, !.todo = DOMAIN tasks]
    /\ runs' = runs + 1
    /\ pre' = [files |-> files, dirs |-> dirs]
    /\ outs' = Append(outs, [stage |-> "pt", roots |-> {}, old |-> {},
                              call |-> <<root, {[key |-> key, mapping |-> mapping]}, apply,
                                         allow_parallel>>])
    /\ UNCHANGED <<clock, dirs, files, col, csv, amz, pack, cmp, colour_ui, order_ui,
                   look, name_plan>>

\* the task the sequential planning loop takes next
NextPlanned == {t \in pt.todo : \A u \in pt.todo : t <= u}

\* the sequential loop plans one leaf: _plan_pairs_for_leaf
PtPlan(t) ==
    /\ pt.pc = "plan"
    /\ t \in NextPlanned
    /\ \E listing \in _list_images(files, dirs, pt.tasks[t].leaf) :
           LET r == _plan_pairs_for_leaf(pt.tasks[t].leaf, pt.tasks[t].mapping, listing)
               plan == [task |-> t, files |-> listing, exc |-> r.exc, pairs |-> r.pairs]
           IN  pt' = [pt EXCEPT
                        !.todo = @ \ {t},
                        !.plans = Append(@, plan),
                        !.exc = r.exc,
                        !.pc = IF r.exc = "none" THEN "plan" ELSE "raised",
                        !.results = IF r.exc = "none" /\ r.pairs # <<>>
                                    THEN Append(@, [leaf |-> pt.tasks[t].leaf, pairs |-> r.pairs])
                                    ELSE @]
    /\ UNCHANGED <<clock, dirs, files, runs, col, pre, outs, csv, amz, pack, cmp, colour_ui, order_ui,
                   look, name_plan>>

\* planning is over: run_with_map reads the clock for the path it will return
PtStamp ==
    /\ pt.pc = "plan"
    /\ pt.todo = {}
    /\ pt' = [pt EXCEPT !.pc = "apply", !.output_root = OutputsDir \o <<strftime(clock)>>]
    /\ UNCHANGED <<clock, dirs, files, runs, col, pre, outs, csv, amz, pack, cmp, colour_ui, order_ui,
                   look, name_plan>>

\* _two_phase_rename for the next planned leaf
PtApply ==
    /\ pt.pc = "apply"
    /\ pt.next <= Len(pt.results)
    /\ LET res == pt.results[pt.next]
           r == _two_phase_rename(files, dirs, res.leaf, res.pairs, pt.apply, pt.root, clock)
       IN  /\ files' = r.files
           /\ dirs' = r.dirs
           /\ pt' = [pt EXCEPT !.next = @ + 1,
                               !.applied = Append(@, [leaf |-> res.leaf,
                                                      output_root |-> r.output_root,
                                                      written |-> r.written])]
           /\ outs' = [outs EXCEPT ![Len(outs)] =
                          [@ EXCEPT !.roots = @ \cup {r.output_root},
                                    !.old = @ \cup ({r.output_root} \cap pre.dirs)]]
    /\ UNCHANGED <<clock, runs, col, pre, csv, amz, pack, cmp, colour_ui, order_ui,
                   look, name_plan>>

\* run_with_map returns output_root
PtReturn ==
    /\ pt.pc = "apply"
    /\ pt.next > Len(pt.results)
    /\ pt' = [pt EXCEPT !.pc = "returned"]
    /\ UNCHANGED <<clock, dirs, files, runs, col, pre, outs, csv, amz, pack, cmp, colour_ui, order_ui,
                   look, name_plan>>

\* the caller has the result (a path or an exception) of the last call and goes on
CallerContinues ==
    /\ \/ col.pc \in {"returned", "raised"}
       \/ pt.pc \in {"returned", "raised"}
       \/ amz.pc \in {"returned", "raised"}
    /\ col' = ColIdle
    /\ pt' = PtIdle
    /\ amz' = AmzIdle
    /\ pre' = NoPre
    /\ UNCHANGED <<clock, dirs, files, runs, outs, csv, pack, cmp, colour_ui, order_ui,
                   look, name_plan>>

PtSteps ==
    \/ \E t \in DOMAIN pt.tasks : PtPlan(t)
    \/ PtStamp
    \/ PtApply
    \/ PtReturn

\* the pipeline: the stages are run for real, one after the other, each on the
\* input tree or on an output root produced earlier
Next ==
    \/ Tick
    \/ /\ Quiet /\ runs < MaxRuns
       /\ \E root \in Roots, rel \in LeafKeys, seq \in ColourSeqs, clone \in CloneNames :
              ColourRun(root, rel, seq, clone, TRUE)
    \/ /\ Quiet /\ runs < MaxRuns
       /\ \E root \in Roots, key \in BaseKeys, mapping \in Mappings,
             allow_parallel \in BOOLEAN :
              PtStart(root, key, mapping, TRUE, allow_parallel)
    \/ PtSteps
    \/ CallerContinues

InitPipeline ==
    Init /\ files = NewFiles(RedDir, {f_1jpg, f_2JPG}) \cup NewFiles(BlueDir, {f_1jpg, f_2JPG})

Spec == InitPipeline /\ [][Next]_vars

\* ColourAssigner alone: one call, on any of the initial trees
NextColour ==
    \/ Tick
    \/ /\ Quiet /\ runs = 0
       /\ \E rel \in LeafKeys, seq \in ColourSeqs, clone \in CloneNames, apply \in BOOLEAN :
              ColourRun(InputsRoot, rel, seq, clone, apply)

SpecColour == Init /\ [][NextColour]_vars

\* PositionRenamer alone: one call, on any of the initial trees
NextPt ==
    \/ Tick
    \/ /\ Quiet /\ runs = 0
       /\ \E key \in BaseKeys, mapping \in Mappings, apply \in BOOLEAN,
             allow_parallel \in BOOLEAN :
              PtStart(InputsRoot, key, mapping, apply, allow_parallel)
    \/ PtSteps

SpecPt == Init /\ [][NextPt]_vars

\* a stage run twice on the input tree: the leaf M/Red may hold two names with
\* equal sort keys (1.jpg and 01.jpg)
TwiceChoices == {{f_1jpg, f_2JPG}, {f_1jpg, f_01jpg}, {f_1jpg, f_01jpg, f_2JPG}}

InitTwice ==
    /\ clock = 0
    /\ runs = 0
    /\ dirs = {script_dir} \cup Prefixes(RedDir) \cup Prefixes(BlueDir)
    /\ \E R \in TwiceChoices : files = NewFiles(RedDir, R)
    /\ col = ColIdle
    /\ pt = PtIdle
    /\ pre = NoPre
    /\ outs = <<>>
    /\ csv = NoCsv
    /\ amz = AmzIdle
    /\ pack = PackIdle
    /\ cmp = CmpIdle
    /\ colour_ui = ColourUiIdle
    /\ order_ui = OrderUiIdle
    /\ look = LookIdle
    /\ name_plan = PlanIdle

NextTwice ==
    \/ Tick
    \/ /\ Quiet /\ runs < MaxRuns
       /\ \E rel \in LeafKeys, seq \in ColourSeqs :
              ColourRun(InputsRoot, rel, seq, <<>>, TRUE)
    \/ /\ Quiet /\ runs < MaxRuns
       /\ \E key \in BaseKeys, mapping \in Mappings :
              PtStart(InputsRoot, key, mapping, TRUE, FALSE)
    \/ PtSteps
    \/ CallerContinues

SpecTwice == InitTwice /\ [][NextTwice]_vars

(***************************************************************************)
(* IdentifierResolver: trees, tables and calls of amz_rename.              *)
(***************************************************************************)
s_x == <<"x">>

s_MdashRed == <<"M", "-", "R", "e", "d">>

s_RedColon == <<"R", "e", "d", ":">>

\* Inputs/M/x/x/M/Red has five ancestors below the root, Inputs/M/Red: two
DeepDir == InputsRoot \o <<s_M, s_x, s_x, s_M, s_Red>>

DashDir == InputsRoot \o <<s_MdashRed>>

ColonDir == InputsRoot \o <<s_M, s_RedColon>>

\* the output root of an earlier stage, and the leaf it holds
PrevOut == OutputsDir \o <<strftime(0)>>

PrevRedDir == PrevOut \o <<s_M, s_Red>>

\* the output root of an earlier run of process_root, and the leaf it holds
PrevRenamed == OutputsDir \o <<strftime(0) \o s_Renamed>>

PrevRenamedRedDir == PrevRenamed \o <<s_M, s_Red>>

f_MAINjpg == <<"M", "A", "I", "N", ".", "j", "p", "g">>

f_kMAINjpg == <<"k", ".", "M", "A", "I", "N", ".", "j", "p", "g">>

f_KmainJPG == <<"K", ".", "m", "a", "i", "n", ".", "J", "P", "G">>

f_KMAINjpg == <<"K", ".", "M", "A", "I", "N", ".", "j", "p", "g">>

f_PT02png == <<"P", "T", "0", "2", ".", "p", "n", "g">>

f_qpt02jpg == <<"q", ".", "p", "t", "0", "2", ".", "j", "p", "g">>

a_B1 == <<"B", "0", "0", "0", "0", "0", "0", "0", "0", "1">>

a_b2 == <<"b", "0", "0", "0", "0", "0", "0", "0", "0", "2">>

a_B3 == <<"B", "0", "0", "0", "0", "0", "0", "0", "0", "3">>

a_short == <<"B", "0", "0">>

a_kelvin == [i \in 1 .. 10 |-> c_KELVIN]

f_B1MAINjpg == a_B1 \o <<".">> \o f_MAINjpg

f_MAINajpg == <<"M", "A", "I", "N", ".", "a", ".", "j", "p", "g">>

AmzNames ==
    <<f_MAINjpg, f_kMAINjpg, f_KmainJPG, f_KMAINjpg, f_PT02png, f_qpt02jpg, f_1jpg,
      f_ntxt, f_B1MAINjpg, f_MAINajpg>>

AmzDirs == <<InputsRoot, RedDir, DeepDir, DashDir, ColonDir, PrevRedDir, PrevRenamedRedDir>>

\* the bytes of the file named n that the directory d holds at the start
AmzBytes(d, n) == IndexOf(AmzNames, n) + Len(AmzNames) * (IndexOf(AmzDirs, d) - 1)

AmzFiles(d, names) == {[dir |-> d, name |-> n, data |-> AmzBytes(d, n)] : n \in names}

\* what the directories of the tree may hold at the start
AmzRedChoices ==
    {{f_MAINjpg}, {f_MAINjpg, f_kMAINjpg}, {f_kMAINjpg, f_KMAINjpg, f_B1MAINjpg},
     {f_kMAINjpg, f_KMAINjpg},
     {f_kMAINjpg, f_KmainJPG}, {f_PT02png, f_1jpg, f_ntxt}, {f_qpt02jpg, f_kMAINjpg}}

AmzOtherChoices == {{}, {f_MAINjpg}, {f_PT02png}, {f_MAINajpg}}

AmzTrees ==
    {t \in {AmzFiles(RedDir, R) \cup AmzFiles(d, O) \cup AmzFiles(InputsRoot, T) :
               R \in AmzRedChoices,
               d \in {DeepDir, DashDir, ColonDir, PrevRedDir, PrevRenamedRedDir},
               O \in AmzOtherChoices, T \in {{}, {f_MAINjpg}}} :
        Cardinality(t) <= MaxAmzFiles}

h_Sku == <<"S", "k", "u">>

h_ASIN == <<"A", "S", "I", "N">>

k_MRed == <<" ", "M", " ", "R", "e", "d", " ">>

k_mslashred == <<"m", "/", "r", "e", "d">>

k_deep == <<"x", " ", "x", " ", "m", " ", "R", "E", "D">>

\* the tables tried: none, an empty file, a header without an asin column, and
\* two tables with the columns in either order
CsvChoices ==
    {NoCsv,
     [exists |-> TRUE, rows |-> <<>>],
     [exists |-> TRUE, rows |-> <<<<s_sku>>, <<<<"k">>>>>>],
     [exists |-> TRUE,
      rows |-> <<<<h_Sku, <<"A", "s", "i", "n">>>>, <<k_MRed, a_b2>>, <<<<"k">>, a_B1>>,
                 <<>>, <<<<"q">>, a_short>>, <<<<>>, a_B3>>, <<<<"k">>>>>>],
     [exists |-> TRUE,
      rows |-> <<<<h_ASIN, s_sku>>, <<a_kelvin, <<"K">>>>, <<a_B1, k_mslashred>>,
                 <<a_B3, k_deep>>, <<a_short, k_MRed>>>>]}

InitAmz ==
    /\ clock = 0
    /\ runs = 0
    /\ dirs = {script_dir} \cup UNION {Prefixes(AmzDirs[i]) : i \in DOMAIN AmzDirs}
    /\ files \in AmzTrees
    /\ csv \in CsvChoices
    /\ col = ColIdle
    /\ pt = PtIdle
    /\ amz = AmzIdle
    /\ pre = NoPre
    /\ outs = <<>>
    /\ pack = PackIdle
    /\ cmp = CmpIdle
    /\ colour_ui = ColourUiIdle
    /\ order_ui = OrderUiIdle
    /\ look = LookIdle
    /\ name_plan = PlanIdle

\* amz_rename.process_root(root)
AmzProcessRoot(root) ==
    /\ Quiet
    /\ \E r \in process_root(files, dirs, csv, root, clock) :
           /\ files' = r.files
           /\ dirs' = r.dirs
           /\ amz' = [AmzIdle EXCEPT
                        !.pc = IF r.exc = "none" THEN "returned" ELSE "raised",
                        !.op = "process_root", !.exc = r.exc, !.root = root,
                        !.ret = r.ret, !.output_root = r.output_root,
                        !.loaded = r.loaded, !.table = r.table, !.total = r.total,
                        !.copied = r.copied, !.bins = r.bins]
           /\ outs' = Append(outs, [stage |-> "amz",
                                     roots |-> {r.output_root} \ {<<>>},
                                     old |-> {r.output_root} \cap dirs,
                                     call |-> <<root>>])
    /\ runs' = runs + 1
    /\ pre' = [files |-> files, dirs |-> dirs]
    /\ UNCHANGED <<clock, col, pt, csv, pack, cmp, colour_ui, order_ui, look, name_plan>>

\* amz_rename.sku2asin_rename(root)
AmzRename(root) ==
    /\ Quiet
    /\ \E r \in sku2asin_rename(files, csv, root) :
           /\ files' = r.files
           /\ amz' = [AmzIdle EXCEPT
                        !.pc = "returned", !.op = "sku2asin_rename", !.root = root,
                        !.loaded = r.loaded, !.table = r.table, !.renamed = r.renamed,
                        !.moves = r.moves]
    /\ runs' = runs + 1
    /\ pre' = [files |-> files, dirs |-> dirs]
    /\ UNCHANGED <<clock, dirs, col, pt, outs, csv, pack, cmp, colour_ui, order_ui,
                   look, name_plan>>

\* the roots given to amz_rename: the input tree, a leaf of it, a path that does
\* not exist, or the output root of an earlier stage or of an earlier run
AmzRoots == {InputsRoot, RedDir, InputsRoot \o <<s_Nope>>, PrevOut, PrevRenamed}

\* IdentifierResolver alone: one call, on any of the trees and tables
NextAmz ==
    \/ Tick
    \/ /\ Quiet /\ runs = 0
       /\ \E root \in AmzRoots : AmzProcessRoot(root)
    \/ /\ Quiet /\ runs = 0
       /\ \E root \in AmzRoots : AmzRename(root)

SpecAmz == InitAmz /\ [][NextAmz]_vars

(***************************************************************************)
(* ArchivePacker alone: the bins create_zip_archives makes of a listing,   *)
(* for every list of sizes the listing can have.                           *)
(***************************************************************************)
InitPack ==
    /\ clock = 0
    /\ runs = 0
    /\ dirs = {script_dir}
    /\ files = {}
    /\ csv = NoCsv
    /\ col = ColIdle
    /\ pt = PtIdle
    /\ amz = AmzIdle
    /\ pre = NoPre
    /\ outs = <<>>
    /\ \E sizes \in SeqsUpTo(Range(SizeChoices), MaxPackFiles) :
           pack = [pc |-> "listed", sizes |-> sizes, bins |-> <<>>]
    /\ cmp = CmpIdle
    /\ colour_ui = ColourUiIdle
    /\ order_ui = OrderUiIdle
    /\ look = LookIdle
    /\ name_plan = PlanIdle

\* lines 238-258 of create_zip_archives
Pack ==
    /\ pack.pc = "listed"
    /\ pack.sizes # <<>>
    /\ pack' = [pack EXCEPT !.pc = "packed", !.bins = BinsOf(pack.sizes)]
    /\ UNCHANGED <<clock, dirs, files, runs, col, pt, pre, outs, csv, amz, cmp, colour_ui,
                   order_ui, look, name_plan>>

NextPack == Pack

SpecPack == InitPack /\ [][NextPack]_vars

(***************************************************************************)
(* Claims about ColourAssigner, checked under SpecColour.                  *)
(***************************************************************************)
ColEnded == col.pc \in {"returned", "raised"}

ColRel == col.col_map[1].rel

\* the leaf the call was given, its colour sequence and its output directory
ColLeaf == col.root \o ColRel

ColColours == StripSeq(col.col_map[1].seq)

ColOut == col.output_root \o ColRel

\* the eligible images the leaf held when the call began
ColImages ==
    {n \in FileNames(pre.files, ColLeaf) :
        /\ lower(suffix(n)) \in {e_jpg, e_jpeg, e_png, e_webp, e_bmp, e_tif, e_tiff}
        /\ n[1] \notin {".", "_"}}

CloneName == (CHOOSE e \in col.clone_map : TRUE).name

InBucket(c, n) == Exists(files, ColOut \o <<c>>, n)

Cycle(seq, i) == seq[((i - 1) % Len(seq)) + 1]

\* C1: without a clone override, the image at position i of the leaf (natural
\* order) is copied into the bucket colours[i mod k] and into no other bucket.
C1_RoundRobin ==
    (ColEnded /\ col.clone_map = {} /\ ColColours # <<>> /\ ColLeaf \in pre.dirs) =>
        \E L \in _iter_images(pre.files, ColLeaf) :
            \A i \in DOMAIN L : \A c \in Range(ColColours) :
                InBucket(c, L[i]) <=> (c = Cycle(ColColours, i))

\* C2: with a clone override naming an image F of the leaf, after
\* run_with_map(apply_changes=True) a copy of F is in every colour bucket.
C2_CloneInEveryBucket ==
    (ColEnded /\ col.apply /\ col.clone_map # {} /\ ColColours # <<>>
        /\ CloneName \in ColImages) =>
        \A c \in Range(ColColours) : InBucket(c, CloneName)

\* C3: with a clone override F, the other images of the leaf are assigned
\* colours[j mod k] by their position j among the non-clone images.
C3_CloneTakesNoSlot ==
    (ColEnded /\ col.clone_map # {} /\ ColColours # <<>> /\ CloneName \in ColImages) =>
        \E L \in _iter_images(pre.files, ColLeaf) :
            LET notClone(n) == n # CloneName
                normal == SelectSeq(L, notClone)
            IN  \A j \in DOMAIN normal : InBucket(Cycle(ColColours, j), normal[j])

\* C4: for a leaf that exists, holds m >= 1 eligible images and has a non-empty
\* colour sequence, run_with_map returns the output root without raising and at
\* least m files are in the leaf's output buckets.
C4_CompletesAndWritesAll ==
    (ColEnded /\ ColLeaf \in pre.dirs /\ ColImages # {} /\ ColColours # <<>>) =>
        /\ col.pc = "returned"
        /\ col.ret = col.output_root
        /\ Cardinality({f \in files : IsPrefix(ColOut, f.dir)}) >= Cardinality(ColImages)

(***************************************************************************)
(* Claims about PositionRenamer, checked under SpecPt.                     *)
(***************************************************************************)
PtEnded == pt.pc \in {"returned", "raised"}

\* the eligible images a leaf held when the call began
PtImages(leaf) ==
    {n \in FileNames(pre.files, leaf) :
        /\ n[1] # "."
        /\ lower(suffix(n)) \in {e_jpg, e_jpeg, e_png, e_gif, e_bmp, e_webp, e_tiff}}

IsBijection(m) == Range(m) = 0 .. Len(m) - 1

\* what the call wrote for a leaf
AppliedTo(leaf) == {pt.applied[i] : i \in {j \in DOMAIN pt.applied : pt.applied[j].leaf = leaf}}

WrittenFor(leaf) == UNION {a.written : a \in AppliedTo(leaf)}

\* C5: for a permutation of [0, n) and a leaf of at least n eligible images,
\* whatever their names, exactly n files are written into the leaf's output
\* directory, one for each of the first n images in natural order.
C5_ExactlyNFiles ==
    pt.pc = "returned" =>
        \A t \in DOMAIN pt.tasks :
            LET leaf == pt.tasks[t].leaf
                m == pt.tasks[t].mapping
            IN  (IsBijection(m) /\ Cardinality(PtImages(leaf)) >= Len(m)) =>
                    /\ Cardinality(WrittenFor(leaf)) = Len(m)
                    /\ \E L \in _list_images(pre.files, pre.dirs, leaf) :
                           \A k \in 1 .. Len(m) : \E w \in WrittenFor(leaf) :
                               DataOf(files, w.dir, w.name) = DataOf(pre.files, leaf, L[k])

\* C6: a mapping that is not a bijection over [0, n) makes the leaf fail, and no
\* file of the leaf is written (stated for the leaves that hold an image).
C6_RejectsNonBijection ==
    \A i \in DOMAIN pt.plans :
        LET t == pt.plans[i].task
        IN  (~IsBijection(pt.tasks[t].mapping) /\ PtImages(pt.tasks[t].leaf) # {}) =>
                /\ pt.plans[i].exc = "RuntimeError"
                /\ WrittenFor(pt.tasks[t].leaf) = {}

\* C7: a leaf with fewer eligible images than the mapping is long makes the call
\* fail with a RuntimeError, and no file is written for the leaf (stated for the
\* leaves that hold at least one image).
C7_TooFewImagesFails ==
    PtEnded =>
        \A t \in DOMAIN pt.tasks :
            LET c == Cardinality(PtImages(pt.tasks[t].leaf))
            IN  (1 <= c /\ c < Len(pt.tasks[t].mapping)) =>
                    /\ pt.pc = "raised"
                    /\ pt.exc = "RuntimeError"
                    /\ WrittenFor(pt.tasks[t].leaf) = {}

\* the plans _plan_pairs_for_leaf can make for a task, from the tree as it was
PlansOf(t) ==
    {_plan_pairs_for_leaf(pt.tasks[t].leaf, pt.tasks[t].mapping, L) :
        L \in _list_images(pre.files, pre.dirs, pt.tasks[t].leaf)}

\* C8: when a leaf fails (too few images, duplicate targets), every sibling leaf
\* whose plan is valid is still applied and its files are written.
C8_SiblingsStillApplied ==
    (PtEnded /\ \E u \in DOMAIN pt.tasks : \A r \in PlansOf(u) : r.exc = "RuntimeError") =>
        \A t \in DOMAIN pt.tasks :
            (\A r \in PlansOf(t) : r.exc = "none" /\ r.pairs # <<>>) =>
                WrittenFor(pt.tasks[t].leaf) # {}

(***************************************************************************)
(* Claims about the pipeline, checked under Spec.                          *)
(***************************************************************************)
\* C9: no stage mutates its source: during and after a call, the files under
\* the call's input root and their bytes are what they were when it began.
C9_SourceUnchanged ==
    /\ ColEnded => Under(files, col.root) = Under(pre.files, col.root)
    /\ pt.pc # "idle" => Under(files, pt.root) = Under(pre.files, pt.root)

\* C10: every stage invocation writes to a freshly created output root: the
\* root did not exist before the call and is no earlier invocation's root.
C10_FreshOutputRoot ==
    \A i \in DOMAIN outs :
        /\ outs[i].old = {}
        /\ \A j \in 1 .. i - 1 : outs[i].roots \cap outs[j].roots = {}

(***************************************************************************)
(* Output roots and dry runs, checked under SpecPt.                        *)
(***************************************************************************)
\* C11: within one pt_order.run_with_map call every leaf is written under one
\* timestamped output root, however much time passes between the leaves, and
\* the path the call returns is that root and exists.
C11_SingleOutputRoot ==
    (pt.pc = "returned" /\ pt.applied # <<>>) =>
        /\ \A i \in DOMAIN pt.applied : pt.applied[i].output_root = pt.output_root
        /\ pt.output_root \in dirs

\* C12: with apply_changes=False (dry run) a stage call mutates nothing: no
\* directory is created and no file is copied or moved.
C12_DryRunWritesNothing ==
    /\ (pt.pc # "idle" /\ ~pt.apply) => (files = pre.files /\ dirs = pre.dirs)
    /\ (col.pc # "idle" /\ ~col.apply) => (files = pre.files /\ dirs = pre.dirs)

(***************************************************************************)
(* Claims about IdentifierResolver, checked under SpecAmz.                 *)
(***************************************************************************)
AmzEnded == amz.pc \in {"returned", "raised"}

Derived == AmzEnded /\ amz.op = "process_root"

Renamed == AmzEnded /\ amz.op = "sku2asin_rename"

NothingMutated == files = pre.files /\ dirs = pre.dirs

\* C13: environment errors abort the stage before any mutation: a root that is
\* not a directory makes the stage fail with NotADirectoryError, a missing or
\* malformed identifier table stops the identifier stage with zero actions;
\* in both cases no directory has been created and no file written.
C13_EnvironmentErrorsMutateNothing ==
    Derived =>
        /\ amz.root \notin pre.dirs =>
               amz.pc = "raised" /\ amz.exc = "NotADirectoryError" /\ NothingMutated
        /\ (amz.root \in pre.dirs /\ _load_sku2asin_csv(csv).exc # "none") =>
               amz.total = 0 /\ NothingMutated

(***************************************************************************)
(* Claims about derive-and-copy, checked under SpecAmz.                    *)
(***************************************************************************)
\* the directory names between the root of the call and the file f
Ancestors(f) == SubSeq(f.dir, Len(amz.root) + 1, Len(f.dir))

\* the key the directories of the model spell: their last four names, joined by
\* spaces, without the characters Windows forbids and without outer spaces
SpokenKey(f) ==
    LET p == Ancestors(f)
    IN  CASE p = <<>> -> <<>>
          [] p = <<s_M, s_Red>> -> <<"M", " ", "R", "e", "d">>
          [] p = <<s_M, s_RedColon>> -> <<"M", " ", "R", "e", "d">>
          [] p = <<s_MdashRed>> -> <<"M", "-", "R", "e", "d">>
          [] p = <<s_M, s_x, s_x, s_M, s_Red>> ->
                 <<"x", " ", "x", " ", "M", " ", "R", "e", "d">>

\* the variant and the extension the names of the model carry, as
\* <key>.<VARIANT>.<ext> or as a bare MAIN.<ext> or PT##.<ext>
Readings ==
    {[name |-> f_MAINjpg, variant |-> s_MAIN, ext |-> <<"j", "p", "g">>],
     [name |-> f_kMAINjpg, variant |-> s_MAIN, ext |-> <<"j", "p", "g">>],
     [name |-> f_KmainJPG, variant |-> s_MAIN, ext |-> <<"J", "P", "G">>],
     [name |-> f_KMAINjpg, variant |-> s_MAIN, ext |-> <<"j", "p", "g">>],
     [name |-> f_B1MAINjpg, variant |-> s_MAIN, ext |-> <<"j", "p", "g">>],
     [name |-> f_MAINajpg, variant |-> s_MAIN, ext |-> <<"a", ".", "j", "p", "g">>],
     [name |-> f_PT02png, variant |-> <<"P", "T", "0", "2">>, ext |-> <<"p", "n", "g">>],
     [name |-> f_qpt02jpg, variant |-> <<"P", "T", "0", "2">>, ext |-> <<"j", "p", "g">>]}

ReadingOf(n) == CHOOSE r \in Readings : r.name = n

\* the eligible images of the tree the call was given whose variant can be read
Readable ==
    {f \in pre.files : /\ IsPrefix(amz.root, f.dir)
                       /\ \E r \in Readings : r.name = f.name}

\* the identifier the loaded table gives the lower-cased key, directly or with
\* "-" read as "/": <<>> when there is none
Resolved(key) == Lookup(amz.table, lower(key))

\* the place the claim gives the copy of f
CopyDir(f) == amz.output_root \o Ancestors(f)

CopyName(f) ==
    Resolved(SpokenKey(f)) \o <<".">> \o ReadingOf(f.name).variant
        \o <<".">> \o ReadingOf(f.name).ext

SameTarget(f, g) == CopyDir(f) = CopyDir(g) /\ CopyName(f) = CopyName(g)

\* C14: after process_root has loaded the table, every readable image whose
\* key (the sanitized space-join of its last four ancestor names) resolves has
\* a copy at <output root>/<same relative directory>/<identifier>.<VARIANT>.<ext>;
\* one whose key does not resolve has produced no output; and the source tree
\* is as it was.
C14_DeriveAndCopy ==
    (Derived /\ amz.loaded) =>
        /\ \A f \in Readable :
               IF Resolved(SpokenKey(f)) # <<>>
               THEN \E g \in files :
                        /\ g.dir = CopyDir(f) /\ g.name = CopyName(f)
                        /\ \E h \in Readable : SameTarget(f, h) /\ g.data = h.data
               ELSE \A i \in DOMAIN amz.copied : amz.copied[i].src # f
        /\ Under(files, amz.root) = Under(pre.files, amz.root)

(***************************************************************************)
(* Claims about rename mode, checked under SpecAmz.                        *)
(***************************************************************************)
\* the names of the model of the form <key>.<VARIANT>.<ext>, with their parts
Keyed ==
    {[name |-> f_kMAINjpg, key |-> <<"k">>, variant |-> s_MAIN, ext |-> <<"j", "p", "g">>],
     [name |-> f_KmainJPG, key |-> <<"K">>, variant |-> s_MAIN, ext |-> <<"J", "P", "G">>],
     [name |-> f_KMAINjpg, key |-> <<"K">>, variant |-> s_MAIN, ext |-> <<"j", "p", "g">>],
     [name |-> f_qpt02jpg, key |-> <<"q">>, variant |-> <<"P", "T", "0", "2">>,
      ext |-> <<"j", "p", "g">>],
     [name |-> f_B1MAINjpg, key |-> a_B1, variant |-> s_MAIN, ext |-> <<"j", "p", "g">>]}

\* a key that is ten letters or digits is an identifier already
IsIdentifier(key) ==
    Len(key) = 10 /\ \A i \in DOMAIN key :
                         key[i] \in DigitSet \cup Range(UpperCase) \cup Range(LowerCase)

\* the files of the tree given to sku2asin_rename that the claim lets it rename
MayRename(f) ==
    \E k \in Keyed : /\ k.name = f.name
                      /\ ~IsIdentifier(k.key)
                      /\ Resolved(k.key) # <<>>

NewNameOf(f) ==
    LET k == CHOOSE x \in Keyed : x.name = f.name
    IN  Resolved(k.key) \o <<".">> \o k.variant \o <<".">> \o k.ext

\* what has become of the file f of the tree before the call: the files that now
\* hold its bytes in its directory (the bytes of the model's files are distinct)
NowOf(f) == {g \in files : g.dir = f.dir /\ g.data = f.data}

WasRenamed(f) == \E g \in NowOf(f) : g.name # f.name

\* C15: after sku2asin_rename every file of the tree is still there once, under
\* its old name or, if its name is <key>.<VARIANT>.<ext> with a key that is no
\* identifier and resolves, under <identifier>.<VARIANT>.<ext>; a file whose
\* new name was taken keeps its name; the count returned is the number of
\* files whose name changed.
C15_RenameLosesNothing ==
    Renamed =>
        /\ Cardinality(files) = Cardinality(pre.files)
        /\ \A f \in pre.files :
               /\ Cardinality(NowOf(f)) = 1
               /\ WasRenamed(f) =>
                      /\ IsPrefix(amz.root, f.dir) /\ amz.loaded
                      /\ MayRename(f)
                      /\ ~Exists(pre.files, f.dir, NewNameOf(f))
                      /\ \A g \in NowOf(f) : g.name = NewNameOf(f)
        /\ amz.renamed = Cardinality({f \in pre.files : WasRenamed(f)})

\* a call that renamed one file and passed over another whose new name was taken
C15_Witness ==
    /\ Renamed /\ amz.renamed >= 1
    /\ \E f \in pre.files :
           /\ IsPrefix(amz.root, f.dir) /\ MayRename(f) /\ ~WasRenamed(f)
           /\ Exists(files, f.dir, NewNameOf(f))

(***************************************************************************)
(* Claims about the identifier table, checked under SpecAmz.               *)
(***************************************************************************)
\* ^[A-Z0-9]{10}$
StrictIdentifier(v) ==
    Len(v) = 10 /\ \A i \in DOMAIN v : v[i] \in DigitSet \cup Range(UpperCase)

Trimmed(k) == k # <<>> /\ k[1] # " " /\ k[Len(k)] # " "

LowerCased(k) == \A i \in DOMAIN k : k[i] \notin Range(UpperCase) \cup {c_KELVIN}

\* the data rows of sku2asin.csv
DataRows == {csv.rows[i] : i \in 2 .. Len(csv.rows)}

\* C16: in the table a call has loaded every key is a non-empty, trimmed,
\* lower-cased SKU of some data row, every value matches ^[A-Z0-9]{10}$, and no
\* two entries share a key.
C16_TableInvariants ==
    (AmzEnded /\ amz.loaded) =>
        \A e \in amz.table :
            /\ Trimmed(e.sku) /\ LowerCased(e.sku)
            /\ StrictIdentifier(e.asin)
            /\ \E row \in DataRows : \E i \in DOMAIN row : lower(strip(row[i])) = e.sku
            /\ \A d \in amz.table : d.sku = e.sku => d = e

(***************************************************************************)
(* Claims about destination collisions, checked under SpecAmz.             *)
(***************************************************************************)
\* the copies process_root performed onto the destination of its i-th copy
CopiesOnto(i) ==
    {j \in DOMAIN amz.copied : /\ amz.copied[j].dir = amz.copied[i].dir
                               /\ amz.copied[j].name = amz.copied[i].name}

\* C17: process_root performs no copy onto a destination that exists: no file
\* that was there before the call has changed, no two of its copies have the
\* same destination, and every destination holds the bytes of its source.
C17_NoCopyOntoExisting ==
    Derived =>
        /\ pre.files \subseteq files
        /\ \A i \in DOMAIN amz.copied :
               /\ ~Exists(pre.files, amz.copied[i].dir, amz.copied[i].name)
               /\ CopiesOnto(i) = {i}
               /\ DataOf(files, amz.copied[i].dir, amz.copied[i].name)
                      = amz.copied[i].src.data

(***************************************************************************)
(* Claims about ArchivePacker, checked under SpecPack.                     *)
(***************************************************************************)
Packed == pack.pc = "packed"

\* the places (bin, slot) at which the file at position p of the listing lies
PlacesOf(p) ==
    {bk \in (DOMAIN pack.bins) \X (DOMAIN pack.sizes) :
        bk[2] \in DOMAIN pack.bins[bk[1]] /\ pack.bins[bk[1]][bk[2]] = p}

RECURSIVE SeqSum(_)
SeqSum(q) == IF q = <<>> THEN 0 ELSE q[1] + SeqSum(Tail(q))

\* the total size of bin b
BinTotal(b) == SeqSum([k \in DOMAIN pack.bins[b] |-> pack.sizes[pack.bins[b][k]]])

\* C18: once the bins are built every file lies in exactly one bin, the bin
\* totals add up to the total size of the files, and every bin totals at most
\* the cap or holds a single file that is larger than the cap.
C18_BinsPartitionWithinCap ==
    Packed =>
        /\ \A p \in DOMAIN pack.sizes : Cardinality(PlacesOf(p)) = 1
        /\ \A b \in DOMAIN pack.bins :
               /\ pack.bins[b] # <<>>
               /\ \A k \in DOMAIN pack.bins[b] : pack.bins[b][k] \in DOMAIN pack.sizes
               /\ \/ BinTotal(b) <= MAX_ZIP_SIZE
                  \/ Len(pack.bins[b]) = 1 /\ pack.sizes[pack.bins[b][1]] > MAX_ZIP_SIZE
        /\ SeqSum([b \in DOMAIN pack.bins |-> BinTotal(b)]) = SeqSum(pack.sizes)

\* a packing with a file above the cap alone in its bin next to a shared bin
C18_Witness ==
    /\ Packed
    /\ \E b \in DOMAIN pack.bins : BinTotal(b) > MAX_ZIP_SIZE
    /\ \E b \in DOMAIN pack.bins : Len(pack.bins[b]) >= 2

\* the sizes of the files of bin b, in the order they were put in
BinSizes(b) == [k \in DOMAIN pack.bins[b] |-> pack.sizes[pack.bins[b][k]]]

\* how many files of the listing have the size z
CountOf(z) == Cardinality({p \in DOMAIN pack.sizes : pack.sizes[p] = z})

\* the listing holds one file of 900 MB, two of 200 MB and one of 50 MB
IsExample ==
    /\ Packed /\ Len(pack.sizes) = 4
    /\ CountOf(900 * MB) = 1 /\ CountOf(200 * MB) = 2 /\ CountOf(50 * MB) = 1

PackedTotal == SeqSum([b \in DOMAIN pack.bins |-> BinTotal(b)])

\* C19: the files of 900, 200, 200 and 50 MB are packed into exactly two bins,
\* the first holding the 900 MB and the 50 MB file and the second the two
\* 200 MB files, and the packed total is the sum of the sizes.
C19_ExampleBins ==
    IsExample =>
        /\ Len(pack.bins) = 2
        /\ BinSizes(1) = <<900 * MB, 50 * MB>>
        /\ BinSizes(2) = <<200 * MB, 200 * MB>>
        /\ PackedTotal = 1350 * MB

\* the example listing, packed
C19_Witness == IsExample /\ Len(pack.bins) = 2 /\ PackedTotal = SeqSum(pack.sizes)

\* C19 as stated: the two bins are {900 MB} and {200 MB, 200 MB, 50 MB}
C19_AsStated ==
    IsExample =>
        /\ Len(pack.bins) = 2
        /\ \E b \in DOMAIN pack.bins : BinSizes(b) = <<900 * MB>>
        /\ \E b \in DOMAIN pack.bins :
               /\ Len(pack.bins[b]) = 3
               /\ Range(BinSizes(b)) = {200 * MB, 50 * MB}
               /\ BinTotal(b) = 450 * MB
        /\ PackedTotal = 1350 * MB

\* the total size of the files an assignment a of files to bins puts in bin b
Load(a, b) == SeqSum([p \in DOMAIN pack.sizes |-> IF a[p] = b THEN pack.sizes[p] ELSE 0])

\* the files can be put in n bins, each within the cap
FitsIn(n) ==
    \E a \in [DOMAIN pack.sizes -> 1 .. n] : \A b \in 1 .. n : Load(a, b) <= MAX_ZIP_SIZE

\* C20: when no file is larger than the cap, the files cannot be put in fewer
\* bins than create_zip_archives has made, each within the cap.
C20_FewestBins ==
    (Packed /\ \A p \in DOMAIN pack.sizes : pack.sizes[p] <= MAX_ZIP_SIZE) =>
        ~FitsIn(Len(pack.bins) - 1)

(***************************************************************************)
(* Claims about the names of the output root and of the archives, checked  *)
(* under SpecAmz.                                                          *)
(***************************************************************************)
\* the run ids T a call on amz.root may use: the name of the root when it lies
\* directly in a directory named Outputs, else a timestamp of the run
RunIds ==
    IF amz.root \in {PrevOut, PrevRenamed} THEN {amz.root[Len(amz.root)]}
    ELSE {strftime(c) : c \in 0 .. MaxClock}

\* <T>_part<N>.zip, for N below ten
PartName(T, N) ==
    T \o <<"_", "p", "a", "r", "t", Digits[N + 1], ".", "z", "i", "p">>

\* the files the call has added to or replaced in the directory Outputs
NewInOutputs == {f.name : f \in {g \in files \ pre.files : g.dir = OutputsDir}}

\* C21: a call of process_root on an existing root has the output root
\* Outputs/<T>_Renamed; if it copied a file, Outputs holds <T>_part<N>.zip for
\* N from 1 to the number of bins and the call wrote nothing else there; if
\* it copied none it wrote no archive.
C21_RunIdNames ==
    (Derived /\ amz.root \in pre.dirs) =>
        \E T \in RunIds :
            /\ amz.output_root = OutputsDir \o <<T \o s_Renamed>>
            /\ amz.output_root \in dirs
            /\ amz.total > 0 =>
                   /\ \A N \in 1 .. Len(amz.bins) : Exists(files, OutputsDir, PartName(T, N))
                   /\ NewInOutputs = {PartName(T, N) : N \in 1 .. Len(amz.bins)}
            /\ amz.total = 0 => NewInOutputs = {}

(***************************************************************************)
(* Claims about determinism, checked under SpecTwice.                      *)
(***************************************************************************)
\* the tree below the output root r, with paths relative to r
RelTree(r) == Under(files, r)

TheRoot(i) == CHOOSE r \in outs[i].roots : TRUE

\* the same stage was called twice with the same arguments, both calls are
\* over, and each wrote into one output root of its own
RanTwice ==
    /\ Len(outs) = 2 /\ Quiet
    /\ outs[1].stage = outs[2].stage
    /\ outs[1].call = outs[2].call
    /\ Cardinality(outs[1].roots) = 1 /\ Cardinality(outs[2].roots) = 1
    /\ outs[1].roots # outs[2].roots

\* C22: two runs of a stage on the same source with the same map into two
\* different output roots leave the same tree (relative paths and bytes)
\* below both roots.
C22_SameTreeTwice == RanTwice => RelTree(TheRoot(1)) = RelTree(TheRoot(2))

(***************************************************************************)
(* Comparing two names by their natural keys, as sorted(..., key=           *)
(* natural_key) does for every pair it orders.                              *)
(***************************************************************************)
n_img == <<"i", "m", "g">>
n_img2 == <<"i", "m", "g", "2">>
n_IMG2 == <<"I", "M", "G", "2">>
n_img02 == <<"i", "m", "g", "0", "2">>
n_img9 == <<"i", "m", "g", "9">>
n_img9b == <<"i", "m", "g", "9", "b">>
n_img9B == <<"i", "m", "g", "9", "B">>
n_img10 == <<"i", "m", "g", "1", "0">>
n_Img10a == <<"I", "m", "g", "1", "0", "a">>
n_img10b2 == <<"i", "m", "g", "1", "0", "b", "2">>
n_img10b10 == <<"i", "m", "g", "1", "0", "b", "1", "0">>
n_Z1 == <<"Z", "1">>
n_a1 == <<"a", "1">>

OrderNames ==
    {n_img, n_img2, n_IMG2, n_img02, n_img9, n_img9b, n_img9B, n_img10, n_Img10a,
     n_img10b2, n_img10b10, n_Z1, n_a1}

InitOrder ==
    /\ clock = 0
    /\ dirs = {}
    /\ files = {}
    /\ runs = 0
    /\ col = ColIdle
    /\ pt = PtIdle
    /\ pre = NoPre
    /\ outs = <<>>
    /\ csv = NoCsv
    /\ amz = AmzIdle
    /\ pack = PackIdle
    /\ \E a \in OrderNames, b \in OrderNames :
           cmp = [pc |-> "drawn", a |-> a, b |-> b, less |-> FALSE]
    /\ colour_ui = ColourUiIdle
    /\ order_ui = OrderUiIdle
    /\ look = LookIdle
    /\ name_plan = PlanIdle

\* natural_key(a) < natural_key(b)
Compare ==
    /\ cmp.pc = "drawn"
    /\ cmp' = [cmp EXCEPT !.pc = "compared", !.less = NameLess(cmp.a, cmp.b)]
    /\ UNCHANGED <<clock, dirs, files, runs, col, pt, pre, outs, csv, amz, pack, colour_ui,
                   order_ui, look, name_plan>>

NextOrder == Compare

SpecOrder == InitOrder /\ [][NextOrder]_vars

(***************************************************************************)
(* C23: under natural_key, "img2" < "img9b" < "img10": names are split     *)
(* into digit and non-digit runs, digit runs compare numerically and       *)
(* non-digit runs compare case-insensitively, segment by segment.  The     *)
(* places of the names in that order are written out by hand: names that   *)
(* differ only in case or in leading zeros share a place, and a name that  *)
(* ends where the other goes on comes first.                               *)
(***************************************************************************)
PlaceOf(n) ==
    CASE n = n_a1 -> 1
      [] n = n_img -> 2
      [] n \in {n_img2, n_IMG2, n_img02} -> 3
      [] n = n_img9 -> 4
      [] n \in {n_img9b, n_img9B} -> 5
      [] n = n_img10 -> 6
      [] n = n_Img10a -> 7
      [] n = n_img10b2 -> 8
      [] n = n_img10b10 -> 9
      [] n = n_Z1 -> 10

Compared(a, b) == cmp.pc = "compared" /\ cmp.a = a /\ cmp.b = b

C23_NaturalOrder ==
    cmp.pc = "compared" => (cmp.less <=> PlaceOf(cmp.a) < PlaceOf(cmp.b))

C23_Witness == Compared(n_img9b, n_img10) /\ cmp.less

\* C23 as stated: "img10" < "img9b"
C23_AsStated == Compared(n_img10, n_img9b) => cmp.less

(***************************************************************************)
(* color_phase.ColorPhase on its current leaf: the listed images, the      *)
(* colour entry boxes, the clone recorded for the leaf in clone_map and    *)
(* the label (assigned_color) of every image.                              *)
(***************************************************************************)
MaxEntries == 3

UI_IMAGE_EXTS == {e_jpg, e_jpeg, e_png, e_gif, e_bmp, e_webp, e_tiff}

s_Clone == <<"C", "l", "o", "n", "e">>
s_Black == <<"B", "l", "a", "c", "k">>
s_Brown == <<"B", "r", "o", "w", "n">>
s_Navy == <<"N", "a", "v", "y">>
s_padBlue == <<" ", "B", "l", "u", "e", " ">>

\* what the leaf directory may hold
LeafChoices ==
    {{f_1jpg}, {f_1jpg, f_2JPG, f_ntxt}, {f_1jpg, f_2JPG, f_10png},
     {f_1jpg, f_2JPG, f_10png, f_PT02jpg}, {f_1jpg, f_01jpg, f_2JPG}}

\* what the user types into an entry box
EntryTexts == {<<>>, s_blank, s_Red, s_padBlue}

\* _get_sequence
_get_sequence(entries) == StripSeq(entries)

\* the loop of apply_colors with the clone taking a slot of the cycle
apply_colors_by_index(items, cols, clone_name) ==
    [i \in DOMAIN items |->
        IF clone_name # <<>> /\ items[i] = clone_name THEN s_Clone
        ELSE IF cols # <<>> THEN cols[((i - 1) % Len(cols)) + 1]
        ELSE <<>>]

\* the loop of apply_colors from item i on, seq_idx colours handed out so far
RECURSIVE ApplyLoop(_, _, _, _, _)
ApplyLoop(items, cols, clone_name, i, seq_idx) ==
    IF i > Len(items) THEN <<>>
    ELSE IF clone_name # <<>> /\ items[i] = clone_name
         THEN <<s_Clone>> \o ApplyLoop(items, cols, clone_name, i + 1, seq_idx)
    ELSE IF cols # <<>>
         THEN <<cols[(seq_idx % Len(cols)) + 1]>>
                  \o ApplyLoop(items, cols, clone_name, i + 1, seq_idx + 1)
    ELSE <<<<>>>> \o ApplyLoop(items, cols, clone_name, i + 1, seq_idx)

\* apply_colors: the assigned_color of every item
apply_colors(items, cols, clone_name) == ApplyLoop(items, cols, clone_name, 1, 0)

\* _load_leaf: the item lists the listing of the leaf can give
_load_leaf(names) ==
    SortedBy({n \in names : lower(suffix(n)) \in UI_IMAGE_EXTS}, NameLess)

\* _set_clone_item(item), item = <<>> standing for None
_set_clone_item(ui, item, how) ==
    [ui EXCEPT !.clone = item,
               !.labels = apply_colors(ui.items, _get_sequence(ui.entries), item),
               !.last = how]

\* _handle_clone_clicked(item, checked)
_handle_clone_clicked(ui, item, checked) ==
    IF checked THEN _set_clone_item(ui, item, "set")
    ELSE IF ui.clone = item THEN _set_clone_item(ui, <<>>, "clear")
    ELSE [ui EXCEPT !.last = "status"]

UiFrame == <<clock, dirs, files, runs, col, pt, pre, outs, csv, amz, pack, cmp, look, name_plan>>

\* the state after ColorPhase.__init__ on a tree with this one leaf
InitColourUi ==
    /\ clock = 0
    /\ dirs = {}
    /\ files = {}
    /\ runs = 0
    /\ col = ColIdle
    /\ pt = PtIdle
    /\ pre = NoPre
    /\ outs = <<>>
    /\ csv = NoCsv
    /\ amz = AmzIdle
    /\ pack = PackIdle
    /\ cmp = CmpIdle
    /\ \E names \in LeafChoices : \E items \in _load_leaf(names) :
           colour_ui = [pc |-> "open", items |-> items,
                        entries |-> <<s_Black, s_Brown, s_Navy>>, clone |-> <<>>,
                        labels |-> apply_colors(items, <<s_Black, s_Brown, s_Navy>>, <<>>),
                        last |-> "load"]
    /\ order_ui = OrderUiIdle
    /\ look = LookIdle
    /\ name_plan = PlanIdle

\* the spin box changes: _rebuild_entries
RebuildEntries(n) ==
    /\ colour_ui.pc = "open"
    /\ n # Len(colour_ui.entries)
    /\ colour_ui' = [colour_ui EXCEPT !.entries = [i \in 1 .. n |-> <<>>], !.last = "edit"]
    /\ UNCHANGED <<UiFrame, order_ui>>

\* the user types into entry box i
EditEntry(i, text) ==
    /\ colour_ui.pc = "open"
    /\ i \in DOMAIN colour_ui.entries
    /\ colour_ui.entries[i] # text
    /\ colour_ui' = [colour_ui EXCEPT !.entries[i] = text, !.last = "edit"]
    /\ UNCHANGED <<UiFrame, order_ui>>

\* the "Apply Order" button
ApplyClicked ==
    /\ colour_ui.pc = "open"
    /\ colour_ui' =
           [colour_ui EXCEPT
               !.labels = apply_colors(colour_ui.items, _get_sequence(colour_ui.entries),
                                       colour_ui.clone),
               !.last = "apply"]
    /\ UNCHANGED <<UiFrame, order_ui>>

\* the "Clone to all colours" button of row i, a check box showing whether the row
\* is the clone: a click hands over the opposite of what it showed
CloneClicked(i) ==
    /\ colour_ui.pc = "open"
    /\ i \in DOMAIN colour_ui.items
    /\ colour_ui' = _handle_clone_clicked(colour_ui, colour_ui.items[i],
                                          colour_ui.clone # colour_ui.items[i])
    /\ UNCHANGED <<UiFrame, order_ui>>

NextColourUi ==
    \/ \E n \in 1 .. MaxEntries : RebuildEntries(n)
    \/ \E i \in 1 .. MaxEntries, text \in EntryTexts : EditEntry(i, text)
    \/ ApplyClicked
    \/ \E i \in DOMAIN colour_ui.items : CloneClicked(i)

SpecColourUi == InitColourUi /\ [][NextColourUi]_vars

(***************************************************************************)
(* C24: in ColorPhase, right after a set-clone or clear-clone operation    *)
(* on the current leaf, at most one item is the clone; the clone is        *)
(* labelled "Clone" and takes no slot of the colour cycle; every other     *)
(* item is labelled cols[j mod k], j its position among the non-clone      *)
(* items and cols the k non-blank colours entered (no label when k = 0);   *)
(* after a clear no item is the clone, so the labels are cols[i mod k].    *)
(***************************************************************************)
\* the colour an entry box stands for, by hand
Entered(text) ==
    CASE text = s_padBlue -> s_Blue
      [] text = s_blank -> <<>>
      [] OTHER -> text

IsEntered(text) == Entered(text) # <<>>

Cols ==
    LET kept == SelectSeq(colour_ui.entries, IsEntered)
    IN  [i \in DOMAIN kept |-> Entered(kept[i])]

ClonePlaces ==
    {i \in DOMAIN colour_ui.items :
        colour_ui.clone # <<>> /\ colour_ui.items[i] = colour_ui.clone}

\* how many non-clone items stand before item i
Before(i) == Cardinality({h \in 1 .. i - 1 : h \notin ClonePlaces})

C24_CloneOutOfCycle ==
    colour_ui.last \in {"set", "clear"} =>
        /\ Cardinality(ClonePlaces) <= 1
        /\ colour_ui.last = "clear" => ClonePlaces = {}
        /\ colour_ui.last = "set" => ClonePlaces # {}
        /\ Len(colour_ui.labels) = Len(colour_ui.items)
        /\ \A i \in DOMAIN colour_ui.items :
               colour_ui.labels[i] =
                   IF i \in ClonePlaces THEN s_Clone
                   ELSE IF Cols = <<>> THEN <<>>
                   ELSE Cols[(Before(i) % Len(Cols)) + 1]

C24_Witness ==
    /\ colour_ui.last = "set"
    /\ Len(colour_ui.items) >= 3
    /\ ClonePlaces = {2}
    /\ Len(Cols) = 2
    /\ colour_ui.labels[1] # colour_ui.labels[3]

(***************************************************************************)
(* order_phase.OrderPhase on its current leaf: the items, each holding     *)
(* its orig_index, in the order shown; the row being dragged (drag_idx)    *)
(* and the insertion index under the pointer (insert_idx), -1 for None.    *)
(***************************************************************************)
MaxItems == 4

None == -1

\* list.pop(i) leaves this list; i is an index of the list
list_pop(s, i) == SubSeq(s, 1, i) \o SubSeq(s, i + 2, Len(s))

\* a store into the list in place of an insertion: s[i] = x, or append at the end
list_store(s, i, x) ==
    IF i >= Len(s) THEN s \o <<x>> ELSE [s EXCEPT ![i + 1] = x]

\* list.insert(i, x), i >= 0: an index past the end appends
list_insert(s, i, x) ==
    LET at == IF i > Len(s) THEN Len(s) ELSE i
    IN  SubSeq(s, 1, at) \o <<x>> \o SubSeq(s, at + 1, Len(s))

\* _load_current: n images listed, item i holding orig_index i
_load_current(n) ==
    [pc |-> "open", items |-> [i \in 1 .. n |-> i - 1], drag_idx |-> None,
     insert_idx |-> None]

\* _on_release, the drag index being an index of the list
_on_release(ui) ==
    LET insert_at == IF ui.insert_idx # None THEN ui.insert_idx ELSE ui.drag_idx
        item == ui.items[ui.drag_idx + 1]
        popped == list_pop(ui.items, ui.drag_idx)
        adjusted == IF insert_at > ui.drag_idx THEN insert_at - 1 ELSE insert_at
    IN  [ui EXCEPT !.items = list_insert(popped, adjusted, item),
                   !.drag_idx = None, !.insert_idx = None, !.pc = "released"]

\* the loop of _mapping_original_to_desired from position new_pos on
RECURSIVE MappingLoop(_, _, _)
MappingLoop(items, inv, new_pos) ==
    IF new_pos >= Len(items) THEN inv
    ELSE MappingLoop(items, [inv EXCEPT ![items[new_pos + 1] + 1] = new_pos], new_pos + 1)

\* _mapping_original_to_desired: inv[orig_index] = new position
_mapping_original_to_desired(items) ==
    MappingLoop(items, [i \in 1 .. Len(items) |-> None], 0)

OrderFrame ==
    <<clock, dirs, files, runs, col, pt, pre, outs, csv, amz, pack, cmp, colour_ui, look, name_plan>>

\* the state after OrderPhase.__init__ has loaded the first leaf
InitOrderUi ==
    /\ clock = 0
    /\ dirs = {}
    /\ files = {}
    /\ runs = 0
    /\ col = ColIdle
    /\ pt = PtIdle
    /\ pre = NoPre
    /\ outs = <<>>
    /\ csv = NoCsv
    /\ amz = AmzIdle
    /\ pack = PackIdle
    /\ cmp = CmpIdle
    /\ colour_ui = ColourUiIdle
    /\ \E n \in 1 .. MaxItems : order_ui = _load_current(n)
    /\ look = LookIdle
    /\ name_plan = PlanIdle

\* _on_press on row idx
OnPress(idx) ==
    /\ order_ui.pc # "closed"
    /\ idx \in 0 .. Len(order_ui.items) - 1
    /\ order_ui' = [order_ui EXCEPT !.drag_idx = idx, !.pc = "open"]
    /\ UNCHANGED OrderFrame

\* _on_motion with the pointer at insertion index idx
OnMotion(idx) ==
    /\ order_ui.pc # "closed"
    /\ order_ui.drag_idx # None
    /\ idx \in 0 .. Len(order_ui.items)
    /\ order_ui' = [order_ui EXCEPT !.insert_idx = idx, !.pc = "open"]
    /\ UNCHANGED OrderFrame

OnRelease ==
    /\ order_ui.pc # "closed"
    /\ order_ui.drag_idx # None
    /\ order_ui' = _on_release(order_ui)
    /\ UNCHANGED OrderFrame

NextOrderUi ==
    \/ \E idx \in 0 .. MaxItems - 1 : OnPress(idx)
    \/ \E idx \in 0 .. MaxItems : OnMotion(idx)
    \/ OnRelease

SpecOrderUi == InitOrderUi /\ [][NextOrderUi]_vars

(***************************************************************************)
(* C30: in OrderPhase, after any sequence of drag-and-drop moves (press    *)
(* on a row d in [0, n), release at an insertion index t in [0, n] or      *)
(* with none), the item list is a permutation of the n listed images and   *)
(* the mapping original index -> new position is a bijection on 0..n-1     *)
(* with no entry left unset.                                               *)
(***************************************************************************)
Shown == order_ui.items

Places == {i - 1 : i \in DOMAIN Shown}

TheMapping == _mapping_original_to_desired(Shown)

C30_MappingIsBijection ==
    order_ui.pc # "closed" =>
        /\ Len(Shown) \in 1 .. MaxItems
        /\ {Shown[i] : i \in DOMAIN Shown} = Places
        /\ Len(TheMapping) = Len(Shown)
        /\ \A o \in DOMAIN TheMapping : TheMapping[o] # None
        /\ {TheMapping[o] : o \in DOMAIN TheMapping} = Places
        /\ \A o \in DOMAIN TheMapping : Shown[TheMapping[o] + 1] = o - 1

C30_Witness ==
    /\ order_ui.pc = "released"
    /\ Shown = <<1, 2, 0>>
    /\ TheMapping = <<2, 0, 1>>

(***************************************************************************)
(* Key resolution, as both sku2asin_rename (lines 104-114) and             *)
(* process_root (lines 188-191) do it: the key is lower-cased and looked   *)
(* up, then looked up with its dashes replaced.                            *)
(***************************************************************************)
q_mdashred == <<"m", "-", "r", "e", "d">>
q_K == <<"K">>
q_k == <<"k">>
q_AdashbdashC == <<"A", "-", "b", "-", "C">>
q_adashbdashc == <<"a", "-", "b", "-", "c">>
q_aslashbslashc == <<"a", "/", "b", "/", "c">>
q_aslashbdashc == <<"a", "/", "b", "-", "c">>
a_B2 == <<"B", "0", "0", "0", "0", "0", "0", "0", "0", "2">>

\* keys as taken from a file name or from the names of the directories above a file
LookKeys == {s_MdashRed, q_mdashred, q_K, q_k, q_AdashbdashC, s_Red}

\* the entries a loaded table may hold: keys lower case, values identifiers
LookEntries ==
    {[sku |-> q_mdashred, asin |-> a_B1], [sku |-> k_mslashred, asin |-> a_B3],
     [sku |-> q_k, asin |-> a_B1], [sku |-> q_aslashbslashc, asin |-> a_B3],
     [sku |-> q_aslashbdashc, asin |-> a_B1], [sku |-> q_adashbdashc, asin |-> a_B2]}

InitLookup ==
    /\ clock = 0
    /\ dirs = {}
    /\ files = {}
    /\ runs = 0
    /\ col = ColIdle
    /\ pt = PtIdle
    /\ pre = NoPre
    /\ outs = <<>>
    /\ csv = NoCsv
    /\ amz = AmzIdle
    /\ pack = PackIdle
    /\ cmp = CmpIdle
    /\ colour_ui = ColourUiIdle
    /\ order_ui = OrderUiIdle
    /\ \E table \in SUBSET LookEntries, key \in LookKeys :
           look = [pc |-> "drawn", table |-> table, key |-> key, asin |-> <<>>]
    /\ name_plan = PlanIdle

\* asin = sku2asin.get(key.lower()) and, if that is empty, the fallback
Resolve ==
    /\ look.pc = "drawn"
    /\ look' = [look EXCEPT !.pc = "resolved", !.asin = Lookup(look.table, lower(look.key))]
    /\ UNCHANGED <<clock, dirs, files, runs, col, pt, pre, outs, csv, amz, pack, cmp, colour_ui,
                   order_ui, name_plan>>

NextLookup == Resolve

SpecLookup == InitLookup /\ [][NextLookup]_vars

(***************************************************************************)
(* C25: key resolution looks up the lower-cased key in the identifier      *)
(* table and, only when that misses, looks up a fallback key formed by     *)
(* replacing every `-` of the key by `/`; the result is the identifier of  *)
(* the first lookup that hits, and the key is unresolved only if both      *)
(* miss.  The lower-cased keys and the fallback keys are written out by    *)
(* hand.                                                                    *)
(***************************************************************************)
LowerCasedKey ==
    CASE look.key \in {s_MdashRed, q_mdashred} -> q_mdashred
      [] look.key \in {q_K, q_k} -> q_k
      [] look.key = q_AdashbdashC -> q_adashbdashc
      [] look.key = s_Red -> <<"r", "e", "d">>

\* the fallback key: each - replaced by /
SlashForDash ==
    CASE LowerCasedKey = q_mdashred -> k_mslashred
      [] LowerCasedKey = q_adashbdashc -> q_aslashbslashc
      [] OTHER -> LowerCasedKey

\* the fallback key of the statement read to the letter, each / replaced by -: the
\* keys hold no /, so it is the key itself
DashForSlash == LowerCasedKey

HitsOf(k) == {e.asin : e \in {x \in look.table : x.sku = k}}

ResolvesBy(fallback) ==
    look.pc = "resolved" =>
        IF HitsOf(LowerCasedKey) # {} THEN {look.asin} = HitsOf(LowerCasedKey)
        ELSE IF HitsOf(fallback) # {} THEN {look.asin} = HitsOf(fallback)
        ELSE look.asin = <<>>

C25_KeyResolution == ResolvesBy(SlashForDash)

C25_Witness ==
    /\ look.pc = "resolved"
    /\ look.key = s_MdashRed
    /\ HitsOf(q_mdashred) = {}
    /\ HitsOf(k_mslashred) = {a_B3}
    /\ look.asin = a_B3

\* C25 as stated: the fallback key is formed by substituting - for /
C25_AsStated == ResolvesBy(DashForSlash)

(***************************************************************************)
(* pt_order._plan_pairs_for_leaf on one leaf, for mappings whose values    *)
(* reach 98, where mapping[i] + 2 takes three digits.                      *)
(***************************************************************************)
\* the positions a mapping of the check may name
PlanValues == {0, 1, 97, 98}

MaxPlanLen == 3

PlanMappings == UNION {[1 .. k -> PlanValues] : k \in 1 .. MaxPlanLen}

PlanChoices ==
    {{f_1jpg, f_2JPG, f_10png}, {f_1jpg, f_PT02jpg, f_ntxt}, {f_2JPG, f_hidden},
     {f_PT02jpg}}

InitPlan ==
    /\ clock = 0
    /\ runs = 0
    /\ dirs = {script_dir} \cup Prefixes(RedDir)
    /\ \E R \in PlanChoices : files = NewFiles(RedDir, R)
    /\ col = ColIdle
    /\ pt = PtIdle
    /\ pre = NoPre
    /\ outs = <<>>
    /\ csv = NoCsv
    /\ amz = AmzIdle
    /\ pack = PackIdle
    /\ cmp = CmpIdle
    /\ colour_ui = ColourUiIdle
    /\ order_ui = OrderUiIdle
    /\ look = LookIdle
    /\ \E mapping \in PlanMappings : name_plan = [PlanIdle EXCEPT !.mapping = mapping]

\* _plan_pairs_for_leaf(root, leaf, mapping)
PlanLeaf ==
    /\ name_plan.pc = "idle"
    /\ \E listing \in _list_images(files, dirs, RedDir) :
           LET r == _plan_pairs_for_leaf(RedDir, name_plan.mapping, listing)
           IN  name_plan' = [name_plan EXCEPT !.pc = "planned", !.listing = listing,
                                              !.exc = r.exc, !.pairs = r.pairs]
    /\ UNCHANGED <<clock, dirs, files, runs, col, pt, pre, outs, csv, amz, pack, cmp, colour_ui,
                   order_ui, look>>

NextPlan == PlanLeaf

SpecPlan == InitPlan /\ [][NextPlan]_vars

(***************************************************************************)
(* C26: for the image at original index i of a leaf, the planned target    *)
(* name is "PT", then mapping[i] + 2 zero-padded to width w, then the      *)
(* original extension lower-cased, w = max(2, number of decimal digits of  *)
(* max(mapping) + 2) being the same for every image of the leaf; an image  *)
(* that bears that name already is planned no pair.  The numerals and the  *)
(* extensions are written out by hand.                                     *)
(***************************************************************************)
Numeral(n, w) ==
    CASE n = 2 /\ w = 2 -> <<"0", "2">>
      [] n = 3 /\ w = 2 -> <<"0", "3">>
      [] n = 99 /\ w = 2 -> <<"9", "9">>
      [] n = 2 /\ w = 3 -> <<"0", "0", "2">>
      [] n = 3 /\ w = 3 -> <<"0", "0", "3">>
      [] n = 99 /\ w = 3 -> <<"0", "9", "9">>
      [] n = 100 /\ w = 3 -> <<"1", "0", "0">>

LowerExt(fname) ==
    CASE fname \in {f_1jpg, f_2JPG, f_PT02jpg} -> <<".", "j", "p", "g">>
      [] fname = f_10png -> <<".", "p", "n", "g">>

WidthOfPlan == IF \E i \in DOMAIN name_plan.mapping : name_plan.mapping[i] = 98 THEN 3 ELSE 2

WantedName(i) ==
    <<"P", "T">> \o Numeral(name_plan.mapping[i] + 2, WidthOfPlan)
        \o LowerExt(name_plan.listing[i])

PlannedFor(i) ==
    {name_plan.pairs[p].dst :
        p \in {q \in DOMAIN name_plan.pairs : name_plan.pairs[q].src = name_plan.listing[i]}}

PlanMade == name_plan.pc = "planned" /\ name_plan.exc = "none" /\ name_plan.listing # <<>>

C26_TargetNames ==
    PlanMade =>
        /\ \A i \in DOMAIN name_plan.mapping :
               PlannedFor(i) = {WantedName(i)} \ {name_plan.listing[i]}
        /\ \A p \in DOMAIN name_plan.pairs :
               \E i \in DOMAIN name_plan.mapping :
                   name_plan.pairs[p].src = name_plan.listing[i]

C26_Witness ==
    /\ PlanMade
    /\ name_plan.mapping = <<98, 0>>
    /\ Len(name_plan.pairs) = 2
    /\ name_plan.pairs[1].dst = <<"P", "T", "1", "0", "0", ".", "j", "p", "g">>
    /\ name_plan.pairs[2].src = f_2JPG
    /\ name_plan.pairs[2].dst = <<"P", "T", "0", "0", "2", ".", "j", "p", "g">>

\* C29: every file name PositionRenamer plans to write is one that process_root
\* can read a variant from (a bare PT followed by exactly two digits, a dot and
\* an extension), whatever the mapping.
C29_NamesAccepted ==
    PlanMade => \A p \in DOMAIN name_plan.pairs : ParseVariant(name_plan.pairs[p].dst).ok

(***************************************************************************)
(* C27: the colour sequence colour_sorter holds for a leaf it goes on to   *)
(* process contains no blank name and no name twice; and a call whose      *)
(* leaf has a missing sequence, or one that is empty once the blanks are   *)
(* gone, leaves nothing for the leaf in the output: no directory below     *)
(* the output root and no file.                                            *)
(***************************************************************************)
ColourCallMade == col.pc \in {"returned", "raised"}

GivenSeq == col.col_map[1].seq

NoColourGiven == \A i \in DOMAIN GivenSeq : GivenSeq[i] \in {<<>>, s_blank}

WrittenBelow(r) ==
    {d \in dirs : IsPrefix(r, d) /\ d # r} \cup {f.dir : f \in {g \in files : IsPrefix(r, g.dir)}}

C27_SequenceStripped ==
    ColourCallMade =>
        /\ col.leaf # <<>> =>
               /\ \A i \in DOMAIN col.colours : col.colours[i] \notin {<<>>, s_blank}
               /\ \A i \in DOMAIN col.colours, j \in DOMAIN col.colours :
                      col.colours[i] = col.colours[j] => i = j
        /\ NoColourGiven => col.leaf = <<>> /\ WrittenBelow(col.output_root) = {}

(***************************************************************************)
(* C28: in pt_order.run_with_map planning never writes and the leaves      *)
(* applied write to pairwise disjoint sets of paths; and a call with       *)
(* allow_parallel=True leaves, below its output roots, the tree that the   *)
(* same call with allow_parallel=False leaves below its own.               *)
(***************************************************************************)
TreeOfRun(i) == UNION {Under(files, r) : r \in outs[i].roots}

SameCallButParallel ==
    /\ Len(outs) = 2 /\ Quiet
    /\ outs[1].stage = "pt" /\ outs[2].stage = "pt"
    /\ outs[1].call[1] = InputsRoot
    /\ SubSeq(outs[1].call, 1, 3) = SubSeq(outs[2].call, 1, 3)
    /\ outs[1].call[4] # outs[2].call[4]
    /\ outs[1].roots \cap outs[2].roots = {}

C28_ParallelAsSequential ==
    /\ pt.pc = "plan" => files = pre.files /\ dirs = pre.dirs
    /\ \A a \in DOMAIN pt.applied, b \in DOMAIN pt.applied :
           a # b => pt.applied[a].written \cap pt.applied[b].written = {}
    /\ SameCallButParallel => TreeOfRun(1) = TreeOfRun(2)

====
